---- MODULE Spec2Model ----
(***************************************************************************)
(* A model of RigidBodyNodeSpec<dof> (src/src/RigidBodyNodeSpec.h): the    *)
(* slot bookkeeping of the constructor and updateSlots, the select-my-     *)
(* goodies-from-the-pool accessors, the default coordinate-count and       *)
(* coordinate-derivative methods and the realize pipeline.                 *)
(*                                                                         *)
(* assert(c) is modelled as the C assert of a build that compiles it in:   *)
(* when c is false the program aborts at that statement (aborted = TRUE)   *)
(* and nothing after it in the function is executed.                       *)
(***************************************************************************)
EXTENDS Integers, Sequences, FiniteSets, TLC

\* ----------------------------------------------------------------- bounds
\* template<int dof>: "the six possible dimensionalities (1-6 mobilities)".
MaxDof == 6
\* Nodes built by the tree builder.
MaxNodes == 2
\* An overriding getMaxNQ() returns dof + e for some e in 1..MaxExtraQ.
MaxExtraQ == 1
\* updateSlots calls made for one node.
MaxSlotCalls == 2
\* Largest offs handed to fromQVec3 / toQVec3 / fromUVec3 / toUVec3.
MaxOffs == 4
\* Largest dof of the nodes whose methods are run on arrays of numbers.
MaxCopyDof == 3
\* The input arrays handed over are i |-> seed * (i + 1), seed in 0..MaxUSeed.
MaxUSeed == 2
\* Most realize calls made in one behaviour.
MaxRealizeCalls == 3

\* ------------------------------------------------------------ enumerations
QDotIsAlwaysTheSameAsU == "QDotIsAlwaysTheSameAsU"
QDotMayDifferFromU == "QDotMayDifferFromU"
QDotHandling == {QDotIsAlwaysTheSameAsU, QDotMayDifferFromU}

QuaternionIsNeverUsed == "QuaternionIsNeverUsed"
QuaternionMayBeUsed == "QuaternionMayBeUsed"
QuaternionUse == {QuaternionIsNeverUsed, QuaternionMayBeUsed}

\* --------------------------------------------------------------- variables
VARIABLES
    nodes,        \* the nodes built so far, in construction order
    nextUSlot,    \* the builder's three next-slot counters, passed by
    nextUSqSlot,  \*   reference to the constructor and to updateSlots
    nextQSlot,
    slotCalls,    \* history: updateSlots calls made for each node
    disciplined,  \* history: every construction so far was followed by
                  \*   exactly one updateSlots call for that node
    aborted,      \* an assert has failed; the program has terminated
    lastCall,     \* the last accessor / default method call and its effect
    u,            \* the u-like input array handed to a method (u, udot)
    qdot,         \* the q-like output array handed to it (qdot, qdotdot)
    localOut,     \* the mobilizer-local output array (Real* qdot, Real* out)
    mob,          \* per node: parent, fixed frames and the joint's own
                  \*   as-defined kinematics (base class and concrete joint)
    q,            \* the generalized coordinates of the state
    uDot,         \* the generalized accelerations of the state; the u-like
                  \*   output array handed to a method
    pc,           \* per node: its entries of the position cache
    vc,           \* per node: its entries of the velocity cache
    dc,           \* per node: its entries of the dynamics cache
    realized,     \* history: the stage functions called so far for each node
    nCalls,       \* history: realize calls made so far
    trace,        \* the calls the last realize function made, in order
    mm            \* the arrays handed to the inertia and mass-matrix passes,
                  \*   and how far the walker has got with them

builderVars == <<nextUSlot, nextUSqSlot, nextQSlot, slotCalls, disciplined>>
arrayVars == <<u, qdot, localOut>>
realizeVars == <<mob, q, uDot, pc, vc, dc, realized, nCalls, trace, mm>>
vars == <<nodes, builderVars, aborted, lastCall, arrayVars, realizeVars>>

NodeIds == 1..Len(nodes)

\* ------------------------------------------------- construction and slots
\* The values the constructor stores (the base class keeps the two modes
\* and the reversed flag; maxNQOverride is the value a subclass override of
\* the virtual getMaxNQ returns, 0 when the subclass does not override it).
RigidBodyNodeSpec(dof, qdotHandling, quaternionUse, isReversed, maxNQOverride, nextU, nextUSq, nextQ) ==
    [dof           |-> dof,
     qdotHandling  |-> qdotHandling,
     quaternionUse |-> quaternionUse,
     isReversed    |-> isReversed,
     maxNQOverride |-> maxNQOverride,
     uIndex        |-> nextU,
     uSqIndex      |-> nextUSq,
     qIndex        |-> nextQ]

getDOF(node) == node.dof

\* The default body of the virtual getMaxNQ: its assertion, then its value.
getMaxNQ_assert(node) == node.quaternionUse = QuaternionIsNeverUsed
getMaxNQ_default(node) == node.dof

\* Virtual dispatch of getMaxNQ(): the subclass override when there is one.
getMaxNQ_overridden(node) == node.maxNQOverride # 0
getMaxNQ_fails(node) == ~getMaxNQ_overridden(node) /\ ~getMaxNQ_assert(node)
getMaxNQ_bad(node) == getMaxNQ_default(node)
getMaxNQ(node) ==
    IF getMaxNQ_overridden(node) THEN node.maxNQOverride ELSE getMaxNQ_default(node)

\* The three statements of updateSlots.
updateSlots_U_bad(node, nextU) == nextU
updateSlots_U(node, nextU) == nextU + getDOF(node)
updateSlots_USq(node, nextUSq) == nextUSq + getDOF(node) * getDOF(node)
updateSlots_Q_bad(node, nextQ) == nextQ + getDOF(node)
updateSlots_Q(node, nextQ) == nextQ + getMaxNQ(node)

\* Constructor arguments: every dof, both quaternion-use modes, with and
\* without an override of getMaxNQ.  The slot bookkeeping reads neither the
\* qdot-handling mode nor the reversed flag, which are drawn by the
\* specifications of the methods that read them.
NodeParams(dofs, qdotHandlings, reversals) ==
    { [dof |-> d, qdotHandling |-> qh, quaternionUse |-> qu, isReversed |-> rev,
       maxNQOverride |-> IF e = 0 THEN 0 ELSE d + e] :
        d \in dofs, qh \in qdotHandlings, qu \in QuaternionUse,
        rev \in reversals, e \in 0..MaxExtraQ }

SlotParams == NodeParams(1..MaxDof, {QDotIsAlwaysTheSameAsU}, {FALSE})

NoCall ==
    [op |-> "none", node |-> 0, arr |-> "none", offs |-> 0, touched |-> {},
     result |-> 0, flag |-> FALSE, failed |-> FALSE]

\* No array has been handed to a method.
NoArrays == u = <<>> /\ qdot = <<>> /\ localOut = <<>>

\* No state has been allocated and nothing has been realized.
NoRealize ==
    /\ mob = <<>> /\ q = <<>> /\ uDot = <<>>
    /\ pc = <<>> /\ vc = <<>> /\ dc = <<>>
    /\ realized = <<>> /\ nCalls = 0 /\ trace = <<>> /\ mm = <<>>

Construct_bad ==
    /\ ~aborted
    /\ Len(nodes) < MaxNodes
    /\ \E p \in SlotParams :
         /\ nodes' = Append(nodes,
                      RigidBodyNodeSpec(p.dof, p.qdotHandling, p.quaternionUse,
                                        p.isReversed, p.maxNQOverride,
                                        nextUSlot, nextUSqSlot, nextQSlot))
         /\ nextUSlot' = nextUSlot + p.dof
         /\ nextUSqSlot' = nextUSqSlot + p.dof * p.dof
         /\ nextQSlot' = nextQSlot + p.dof
    /\ slotCalls' = Append(slotCalls, 0)
    /\ disciplined' = (disciplined /\ (nodes = <<>> \/ slotCalls[Len(nodes)] = 1))
    /\ lastCall' = NoCall
    /\ UNCHANGED <<aborted, arrayVars, realizeVars>>

Construct ==
    /\ ~aborted
    /\ Len(nodes) < MaxNodes
    /\ \E p \in SlotParams :
         nodes' = Append(nodes,
                    RigidBodyNodeSpec(p.dof, p.qdotHandling, p.quaternionUse,
                                      p.isReversed, p.maxNQOverride,
                                      nextUSlot, nextUSqSlot, nextQSlot))
    /\ slotCalls' = Append(slotCalls, 0)
    /\ disciplined' = (disciplined /\ (nodes = <<>> \/ slotCalls[Len(nodes)] = 1))
    /\ lastCall' = NoCall
    /\ UNCHANGED <<nextUSlot, nextUSqSlot, nextQSlot, aborted, arrayVars, realizeVars>>

\* nextUSlot and nextUSqSlot are advanced before the virtual getMaxNQ() is
\* called, so they stay advanced when its assertion fails.
updateSlots(n) ==
    /\ ~aborted
    /\ slotCalls[n] < MaxSlotCalls
    /\ nextUSlot' = updateSlots_U(nodes[n], nextUSlot)
    /\ nextUSqSlot' = updateSlots_USq(nodes[n], nextUSqSlot)
    /\ IF getMaxNQ_fails(nodes[n])
         THEN aborted' = TRUE /\ UNCHANGED nextQSlot
         ELSE /\ nextQSlot' = updateSlots_Q(nodes[n], nextQSlot)
              /\ UNCHANGED aborted
    /\ slotCalls' = [slotCalls EXCEPT ![n] = @ + 1]
    /\ disciplined' = (disciplined /\ n = Len(nodes) /\ slotCalls[n] = 0)
    /\ lastCall' = NoCall
    /\ UNCHANGED <<nodes, arrayVars, realizeVars>>

\* The builder calls updateSlots for the node it has just constructed:
\* once (the discipline), not at all, or more than once.
UpdateSlotsStep == nodes # <<>> /\ updateSlots(Len(nodes))

Init ==
    /\ nodes = <<>>
    /\ nextUSlot = 0
    /\ nextUSqSlot = 0
    /\ nextQSlot = 0
    /\ slotCalls = <<>>
    /\ disciplined = TRUE
    /\ aborted = FALSE
    /\ lastCall = NoCall
    /\ NoArrays
    /\ NoRealize

Next ==
    \/ Construct
    \/ UpdateSlotsStep

Spec == Init /\ [][Next]_vars

\* ---------------------------------------------------------------- accessors
\* Vec<n>::getAs(&a[start]) / updAs(&a[start]): a view of n consecutive
\* entries of the array, starting at start.
VecAt(start, n) == start .. (start + n - 1)

\* General joint-dependent select-my-goodies-from-the-pool routines.
fromQ_bad(node) == VecAt(node.uIndex, node.dof)
fromQ(node) == VecAt(node.qIndex, node.dof)
fromU(node) == VecAt(node.uIndex, node.dof)
fromUSq(node) == VecAt(node.uSqIndex, node.dof * node.dof)
\* Same, specialized for dof = 1.
from1Q(node) == {node.qIndex}
from1U(node) == {node.uIndex}
from1USq(node) == {node.uSqIndex}
\* Same, specialized for quaternions: Vec4 at qIndex.
fromQuat_bad(node) == VecAt(node.qIndex, node.dof)
fromQuat(node) == VecAt(node.qIndex, 4)
\* A Vec3 beginning at an offset from the qIndex or uIndex.
fromQVec3(node, offs) == VecAt(node.qIndex + offs, 3)
fromUVec3(node, offs) == VecAt(node.uIndex + offs, 3)

\* The accessors by the shared array they index (the to* / upd* forms
\* return the same view as the from* / get* forms, writable).
QAccessors == {"fromQ", "toQ", "getSinQ", "updSinQ", "getCosQ", "updCosQ"}
Q1Accessors == {"from1Q", "to1Q"}
QuatAccessors == {"fromQuat", "toQuat", "getQNorm", "updQNorm"}
QVec3Accessors == {"fromQVec3", "toQVec3"}
UAccessors == {"fromU", "toU"}
U1Accessors == {"from1U", "to1U"}
UVec3Accessors == {"fromUVec3", "toUVec3"}
USqAccessors == {"fromUSq", "toUSq"}
USq1Accessors == {"from1USq", "to1USq"}
Vec3Accessors == QVec3Accessors \cup UVec3Accessors
Accessors ==
    QAccessors \cup Q1Accessors \cup QuatAccessors \cup QVec3Accessors \cup
    UAccessors \cup U1Accessors \cup UVec3Accessors \cup USqAccessors \cup
    USq1Accessors

ArrayOf(acc) ==
    IF acc \in QAccessors \cup Q1Accessors \cup QuatAccessors \cup QVec3Accessors
    THEN "q"
    ELSE IF acc \in UAccessors \cup U1Accessors \cup UVec3Accessors THEN "u"
    ELSE "uSq"

Touched(acc, node, offs) ==
    CASE acc \in QAccessors     -> fromQ(node)
      [] acc \in Q1Accessors    -> from1Q(node)
      [] acc \in QuatAccessors  -> fromQuat(node)
      [] acc \in QVec3Accessors -> fromQVec3(node, offs)
      [] acc \in UAccessors     -> fromU(node)
      [] acc \in U1Accessors    -> from1U(node)
      [] acc \in UVec3Accessors -> fromUVec3(node, offs)
      [] acc \in USqAccessors   -> fromUSq(node)
      [] acc \in USq1Accessors  -> from1USq(node)

\* What an accessor checks before it returns its view: nothing.  The
\* accessors are one-line inline functions without an assertion, on the
\* quaternion-use mode or on anything else.
Accessor_assert_bad(acc, node) ==
    acc \in QuatAccessors => node.quaternionUse # QuaternionIsNeverUsed
Accessor_assert(acc, node) == TRUE

\* One accessor call on node n.
Access(n, acc, offs) ==
    /\ ~aborted
    /\ lastCall = NoCall
    /\ LET ok == Accessor_assert(acc, nodes[n]) IN
         /\ lastCall' = [op |-> acc, node |-> n, arr |-> ArrayOf(acc), offs |-> offs,
                         touched |-> IF ok THEN Touched(acc, nodes[n], offs) ELSE {},
                         result |-> 0, flag |-> FALSE, failed |-> ~ok]
         /\ aborted' = ~ok
    /\ UNCHANGED <<realizeVars, nodes, builderVars, arrayVars>>

AccessStep ==
    \E n \in NodeIds :
        \/ \E acc \in Accessors \ Vec3Accessors : Access(n, acc, 0)
        \/ \E acc \in Vec3Accessors, offs \in 0..MaxOffs : Access(n, acc, offs)

\* ------------------------------------------ default coordinate-count methods
getNQInUse_assert(node) == node.quaternionUse = QuaternionIsNeverUsed
getNQInUse_default(node) == node.dof
getNUInUse_default(node) == node.dof
isUsingQuaternion_assert(node) == node.quaternionUse = QuaternionIsNeverUsed
isUsingQuaternion_default(node) == FALSE
\* MobilizerQIndex::invalidate(): the index no longer designates a q.
InvalidIndex == -1

CountMethods == {"getMaxNQ", "getNQInUse", "getNUInUse", "isUsingQuaternion"}

CountAssert_bad(fn, node) == TRUE
CountAssert(fn, node) ==
    CASE fn = "getMaxNQ"          -> getMaxNQ_assert(node)
      [] fn = "getNQInUse"        -> getNQInUse_assert(node)
      [] fn = "getNUInUse"        -> TRUE
      [] fn = "isUsingQuaternion" -> isUsingQuaternion_assert(node)

CountResult(fn, node) ==
    CASE fn = "getMaxNQ"          -> getMaxNQ_default(node)
      [] fn = "getNQInUse"        -> getNQInUse_default(node)
      [] fn = "getNUInUse"        -> getNUInUse_default(node)
      [] fn = "isUsingQuaternion" -> InvalidIndex

\* The default (un-overridden) body of a coordinate-count method running on
\* node n.  For isUsingQuaternion, result is startOfQuaternion after the
\* call (the caller passed index 0) and flag is the value returned.
CallDefaultCount(n, fn) ==
    /\ ~aborted
    /\ lastCall = NoCall
    /\ LET ok == CountAssert(fn, nodes[n]) IN
         /\ lastCall' = [op |-> fn, node |-> n, arr |-> "none", offs |-> 0,
                         touched |-> {},
                         result |-> IF ok THEN CountResult(fn, nodes[n]) ELSE 0,
                         flag |-> IF ok /\ fn = "isUsingQuaternion"
                                  THEN isUsingQuaternion_default(nodes[n])
                                  ELSE FALSE,
                         failed |-> ~ok]
         /\ aborted' = ~ok
    /\ UNCHANGED <<realizeVars, nodes, builderVars, arrayVars>>

\* The virtual call getMaxNQ() on node n: the subclass override when there
\* is one, the default body otherwise.
CallVirtualGetMaxNQ(n) ==
    /\ ~aborted
    /\ lastCall = NoCall
    /\ lastCall' = [op |-> "getMaxNQ()", node |-> n, arr |-> "none", offs |-> 0,
                    touched |-> {},
                    result |-> IF getMaxNQ_fails(nodes[n]) THEN 0 ELSE getMaxNQ(nodes[n]),
                    flag |-> FALSE, failed |-> getMaxNQ_fails(nodes[n])]
    /\ aborted' = getMaxNQ_fails(nodes[n])
    /\ UNCHANGED <<realizeVars, nodes, builderVars, arrayVars>>

CountStep ==
    \E n \in NodeIds :
        \/ \E fn \in CountMethods : CallDefaultCount(n, fn)
        \/ CallVirtualGetMaxNQ(n)

\* The call has returned to its caller, which goes on to the next call.
Return ==
    /\ ~aborted
    /\ lastCall # NoCall
    /\ lastCall' = NoCall
    /\ UNCHANGED <<realizeVars, nodes, builderVars, aborted, arrayVars>>

\* ------------------------------------------------ trees built by discipline
\* The nodes a builder gets from the argument sequence ps by constructing
\* each node and calling updateSlots once for it before the next.
RECURSIVE BuildFrom(_, _, _, _, _)
BuildFrom(ps, built, nextU, nextUSq, nextQ) ==
    IF ps = <<>> THEN built
    ELSE LET p == Head(ps)
             node == RigidBodyNodeSpec(p.dof, p.qdotHandling, p.quaternionUse,
                                       p.isReversed, p.maxNQOverride,
                                       nextU, nextUSq, nextQ)
         IN BuildFrom(Tail(ps), Append(built, node),
                      updateSlots_U(node, nextU), updateSlots_USq(node, nextUSq),
                      updateSlots_Q(node, nextQ))

BuildTree(ps) == BuildFrom(ps, <<>>, 0, 0, 0)

\* The well-formed mobilizers among params: getMaxNQ is overridden exactly
\* when a quaternion may be used.
WellFormedCounts(params) ==
    { p \in params : (p.maxNQOverride # 0) <=> (p.quaternionUse # QuaternionIsNeverUsed) }

\* Argument sequences of up to maxLen nodes that the discipline completes
\* up to the last node: the earlier nodes, whose updateSlots call has
\* returned and which shift the last node's indices, are drawn from
\* priors, the last node from params.
ParamSeqs(params, priors, maxLen) ==
    { ps \in UNION { [1..k -> params \cup priors] : k \in 1..maxLen } :
        /\ ps[Len(ps)] \in params
        /\ \A i \in 1..(Len(ps) - 1) : ps[i] \in priors }

\* The state a disciplined build of ps leaves: the last node is constructed
\* and its updateSlots call is still to come.
BuiltState(ps) ==
    LET t == BuildTree(ps)
        last == t[Len(t)]
    IN /\ nodes = t
       /\ nextUSlot = last.uIndex
       /\ nextUSqSlot = last.uSqIndex
       /\ nextQSlot = last.qIndex
       /\ slotCalls = [k \in 1..Len(t) |-> IF k < Len(t) THEN 1 ELSE 0]
       /\ disciplined = TRUE
       /\ aborted = FALSE

InitAccess ==
    /\ \E ps \in ParamSeqs(SlotParams, WellFormedCounts(SlotParams), MaxNodes) :
         BuiltState(ps)
    /\ lastCall = NoCall
    /\ NoArrays
    /\ NoRealize

NextAccess ==
    \/ AccessStep
    \/ CountStep
    \/ Return

SpecAccess == InitAccess /\ [][NextAccess]_vars

\* ------------------------------------------- default coordinate derivatives
\* Arrays are functions on 0..len-1, as the C arrays they model.
Garbage(len) == [i \in 0..(len - 1) |-> -(i + 1)]
UArrays(len) == { [i \in 0..(len - 1) |-> seed * (i + 1)] : seed \in 0..MaxUSeed }

MinOf(view) == CHOOSE i \in view : \A j \in view : i <= j

\* toX(out) = fromY(in): the entries of out in outView become, in order,
\* the entries of in in inView; every other entry of out is left alone.
AssignView(out, outView, in, inView) ==
    [i \in DOMAIN out |->
        IF i \in outView THEN in[MinOf(inView) + (i - MinOf(outView))] ELSE out[i]]

\* toQ(qdot) = fromU(u), and the same for qdotdot and udot.
calcQDot_bad(node, uu, qd) ==
    [i \in DOMAIN qd |-> IF i \in fromQ(node) THEN uu[node.uIndex] ELSE qd[i]]
calcQDot(node, uu, qd) == AssignView(qd, fromQ(node), uu, fromU(node))
calcQDotDot(node, udot, qdotdot) == AssignView(qdotdot, fromQ(node), udot, fromU(node))

\* Vec<dof>::updAs(out) = Vec<dof>::getAs(in) on mobilizer-local arrays.
LocalView(node) == VecAt(0, node.dof)
calcLocalQDotFromLocalU(node, lu, lqdot) ==
    AssignView(lqdot, LocalView(node), lu, LocalView(node))
calcLocalQDotDotFromLocalUDot(node, ludot, lqdotdot) ==
    AssignView(lqdotdot, LocalView(node), ludot, LocalView(node))
multiplyByN(node, in, out) == AssignView(out, LocalView(node), in, LocalView(node))
multiplyByNInv(node, in, out) == AssignView(out, LocalView(node), in, LocalView(node))

QDotMethods == {"calcQDot", "calcQDotDot"}
LocalQDotMethods ==
    {"calcLocalQDotFromLocalU", "calcLocalQDotDotFromLocalUDot",
     "multiplyByN", "multiplyByNInv"}

\* assert(qdotHandling == QDotIsAlwaysTheSameAsU), the first statement of
\* each of the six default methods.
QDotAssert_bad(fn, node) == TRUE
QDotAssert(fn, node) == node.qdotHandling = QDotIsAlwaysTheSameAsU

QDotCall(fn, n, failed) ==
    [op |-> fn, node |-> n, arr |-> "none", offs |-> 0, touched |-> {},
     result |-> 0, flag |-> FALSE, failed |-> failed]

\* The default calcQDot / calcQDotDot body running on node n, handed the
\* arrays u and qdot.
CallQDot(n, fn) ==
    /\ ~aborted
    /\ lastCall = NoCall
    /\ LET ok == QDotAssert(fn, nodes[n]) IN
         /\ qdot' = IF ~ok THEN qdot
                    ELSE IF fn = "calcQDot" THEN calcQDot(nodes[n], u, qdot)
                    ELSE calcQDotDot(nodes[n], u, qdot)
         /\ aborted' = ~ok
         /\ lastCall' = QDotCall(fn, n, ~ok)
    /\ UNCHANGED <<realizeVars, nodes, builderVars, u, localOut>>

\* The default body of a mobilizer-local method running on node n, handed u
\* as its local input array and localOut as its local output array.
CallLocalQDot(n, fn) ==
    /\ ~aborted
    /\ lastCall = NoCall
    /\ LET ok == QDotAssert(fn, nodes[n]) IN
         /\ localOut' =
              IF ~ok THEN localOut
              ELSE CASE fn = "calcLocalQDotFromLocalU" ->
                          calcLocalQDotFromLocalU(nodes[n], u, localOut)
                     [] fn = "calcLocalQDotDotFromLocalUDot" ->
                          calcLocalQDotDotFromLocalUDot(nodes[n], u, localOut)
                     [] fn = "multiplyByN" -> multiplyByN(nodes[n], u, localOut)
                     [] fn = "multiplyByNInv" -> multiplyByNInv(nodes[n], u, localOut)
         /\ aborted' = ~ok
         /\ lastCall' = QDotCall(fn, n, ~ok)
    /\ UNCHANGED <<realizeVars, nodes, builderVars, u, qdot>>

QDotStep == \E n \in NodeIds, fn \in QDotMethods : CallQDot(n, fn)
LocalQDotStep == \E n \in NodeIds, fn \in LocalQDotMethods : CallLocalQDot(n, fn)

\* The call has returned; the caller keeps the shared output array and
\* takes a fresh local array for the next call.
ReturnQDot ==
    /\ ~aborted
    /\ lastCall # NoCall
    /\ lastCall' = NoCall
    /\ localOut' = Garbage(MaxCopyDof)
    /\ UNCHANGED <<realizeVars, nodes, builderVars, aborted, u, qdot>>

\* The mobilizers as the joint types set their modes: qdot may differ from
\* u exactly when a quaternion may be used.
WellFormedModes(params) ==
    { p \in params :
        (p.qdotHandling # QDotIsAlwaysTheSameAsU) <=>
        (p.quaternionUse # QuaternionIsNeverUsed) }

QDotParams == WellFormedCounts(NodeParams(1..MaxCopyDof, QDotHandling, {FALSE}))

\* Sizes of the shared arrays of a built tree.
NUOf(tree) == tree[Len(tree)].uIndex + getDOF(tree[Len(tree)])
NQOf(tree) == tree[Len(tree)].qIndex + getMaxNQ(tree[Len(tree)])

InitQDot ==
    /\ \E ps \in ParamSeqs(QDotParams, WellFormedModes(QDotParams), MaxNodes) :
         BuiltState(ps)
    /\ lastCall = NoCall
    /\ u \in UArrays(NUOf(nodes))
    /\ qdot = Garbage(NQOf(nodes))
    /\ localOut = Garbage(MaxCopyDof)
    /\ NoRealize

NextQDot ==
    \/ QDotStep
    \/ LocalQDotStep
    \/ ReturnQDot

SpecQDot == InitQDot /\ [][NextQDot]_vars

\* ------------------------------------------------------- spatial quantities
\* A Transform is taken from a finite non-commutative group, the
\* permutations of the three coordinate axes: t[i] is the axis that axis i
\* is carried to.  X_AB * X_BC is composition, ~X the inverse, X * v the
\* re-expression of a Vec3.
Identity == <<1, 2, 3>>
Rot120 == <<2, 3, 1>>
Flip == <<2, 1, 3>>
Mirror == <<3, 2, 1>>

Compose(a, b) == <<a[b[1]], a[b[2]], a[b[3]]>>
PreImage(a, i) == IF a[1] = i THEN 1 ELSE IF a[2] = i THEN 2 ELSE 3
Invert(a) == <<PreImage(a, 1), PreImage(a, 2), PreImage(a, 3)>>
Rotate(a, v) == <<v[PreImage(a, 1)], v[PreImage(a, 2)], v[PreImage(a, 3)]>>

RECURSIVE Power(_, _)
Power(a, k) == IF k = 0 THEN Identity ELSE Compose(a, Power(a, k - 1))

\* A SpatialVec is <<angular, linear>>, each a Vec3 of integers.
ZeroSpatial == << <<0, 0, 0>>, <<0, 0, 0>> >>
Vec3Add(a, b) == <<a[1] + b[1], a[2] + b[2], a[3] + b[3]>>
Vec3Scale(a, k) == <<a[1] * k, a[2] * k, a[3] * k>>
SpatialAdd(a, b) == <<Vec3Add(a[1], b[1]), Vec3Add(a[2], b[2])>>
SpatialScale(a, k) == <<Vec3Scale(a[1], k), Vec3Scale(a[2], k)>>
SpatialRotate(x, a) == <<Rotate(x, a[1]), Rotate(x, a[2])>>

\* An HType (Mat<2,dof,Vec3>) is the sequence of its dof columns, each a
\* SpatialVec; H * Vec<dof> is the sum of the columns scaled by the entries.
RECURSIVE MulFrom(_, _, _)
MulFrom(H, vec, j) ==
    IF j > Len(H) THEN ZeroSpatial
    ELSE SpatialAdd(SpatialScale(H[j], vec[j]), MulFrom(H, vec, j + 1))
Mul(H, vec) == MulFrom(H, vec, 1)

\* The Vec<dof> a view selects from an array, entries numbered from 1.
ViewOf(arr, view) == [j \in 1..Cardinality(view) |-> arr[MinOf(view) + j - 1]]

\* ---------------------------------------------------- the joint's own part
\* What the concrete joint supplies through the pure virtuals: a pin-like
\* across-joint transform that advances by one step of its axis rotation
\* per unit of its first coordinate, and constant as-defined Jacobians.
calcAcrossJointTransform(n, qq) == Power(mob[n].axis, qq[nodes[n].qIndex])
calcAcrossJointVelocityJacobian(n) == mob[n].H_F0M0
calcAcrossJointVelocityJacobianDot(n) == mob[n].HDot_F0M0

\* The base class: fixed frames, and the parent's ground transform read
\* from the position cache (the identity for a base body on ground).
getX_PF(n) == mob[n].X_PF
getX_MB(n) == mob[n].X_MB
getX_GP(n, c) == IF mob[n].parent = 0 THEN Identity ELSE c[mob[n].parent].X_GB

\* The default reversed-mobilizer adapters: the as-defined Jacobian maps
\* speeds to the velocity of F in M; the velocity of M in F is its negative
\* re-expressed in F by the X_FM of the position cache.
ReverseColumn(x, col) == SpatialScale(SpatialRotate(x, col), -1)
calcReverseMobilizerH_FM(n, c) ==
    LET H_MF == calcAcrossJointVelocityJacobian(n)
    IN [j \in 1..Len(H_MF) |-> ReverseColumn(c[n].X_FM, H_MF[j])]
calcReverseMobilizerHDot_FM(n, c) ==
    LET HDot_MF == calcAcrossJointVelocityJacobianDot(n)
    IN [j \in 1..Len(HDot_MF) |-> ReverseColumn(c[n].X_FM, HDot_MF[j])]

\* H_FM and HDot_FM re-expressed in ground: G to F is the parent's ground
\* transform followed by X_PF.
calcParentToChildVelocityJacobianInGround(n, c) ==
    LET X_GF == Compose(getX_GP(n, c), getX_PF(n))
    IN [j \in 1..Len(c[n].H_FM) |-> SpatialRotate(X_GF, c[n].H_FM[j])]
calcParentToChildVelocityJacobianInGroundDot(n, c, d) ==
    LET X_GF == Compose(getX_GP(n, c), getX_PF(n))
    IN [j \in 1..Len(d[n].HDot_FM) |-> SpatialRotate(X_GF, d[n].HDot_FM[j])]

\* ------------------------------------------------------ the realize pipeline
\* updX_PB(pc) = X_PF * X_FM * X_MB;  updX_GB(pc) = X_GP * X_PB.
calcBodyTransforms_bad(n, c) ==
    LET X_PB == Compose(Compose(getX_MB(n), c[n].X_FM), getX_PF(n))
    IN [c EXCEPT ![n].X_PB = X_PB, ![n].X_GB = Compose(getX_GP(n, c), X_PB)]
calcBodyTransforms_sibling(n, c) ==
    LET X_PB == Compose(Compose(getX_PF(n), c[n].X_FM), getX_MB(n))
    IN [c EXCEPT ![n].X_PB = X_PB,
                 ![n].X_GB = Compose(IF n = 1 THEN Identity ELSE c[n - 1].X_GB, X_PB)]
calcBodyTransforms(n, c) ==
    LET X_PB == Compose(Compose(getX_PF(n), c[n].X_FM), getX_MB(n))
    IN [c EXCEPT ![n].X_PB = X_PB, ![n].X_GB = Compose(getX_GP(n, c), X_PB)]

\* updV_FM(vc) = getH_FM(pc) * fromU(u);  updV_PB_G(vc) = getH(pc) * fromU(u).
calcJointKinematicsVel_bad(n, c, uu, v) ==
    [v EXCEPT ![n].V_FM = Mul(c[n].H, ViewOf(uu, fromU(nodes[n]))),
              ![n].V_PB_G = Mul(c[n].H, ViewOf(uu, fromU(nodes[n])))]
calcJointKinematicsVel(n, c, uu, v) ==
    [v EXCEPT ![n].V_FM = Mul(c[n].H_FM, ViewOf(uu, fromU(nodes[n]))),
              ![n].V_PB_G = Mul(c[n].H, ViewOf(uu, fromU(nodes[n])))]

\* updVD_PB_G(dc) = getHDot(dc) * fromU(u).
calcJointDynamics_bad(n, uu, d) ==
    [d EXCEPT ![n].VD_PB_G = Mul(d[n].HDot_FM, ViewOf(uu, fromU(nodes[n])))]

calcJointDynamics(n, uu, d) ==
    [d EXCEPT ![n].VD_PB_G = Mul(d[n].HDot, ViewOf(uu, fromU(nodes[n])))]

\* The position cache realizePosition leaves, reading the reversed flag as
\* given: X_FM, then the body transforms, then H_FM, then H.
PositionCacheOf_bad(c, n, reversed) ==
    LET X_F0M0 == calcAcrossJointTransform(n, q)
        c1 == [c EXCEPT ![n].X_FM = IF reversed THEN Invert(X_F0M0) ELSE X_F0M0]
        c2 == calcBodyTransforms(n, c1)
        c3 == [c2 EXCEPT ![n].H = calcParentToChildVelocityJacobianInGround(n, c2)]
    IN [c3 EXCEPT ![n].H_FM = IF reversed THEN calcReverseMobilizerH_FM(n, c3)
                              ELSE calcAcrossJointVelocityJacobian(n)]

PositionCacheOf(c, n, reversed) ==
    LET X_F0M0 == calcAcrossJointTransform(n, q)
        c1 == [c EXCEPT ![n].X_FM = IF reversed THEN Invert(X_F0M0) ELSE X_F0M0]
        c2 == calcBodyTransforms(n, c1)
        c3 == [c2 EXCEPT ![n].H_FM = IF reversed THEN calcReverseMobilizerH_FM(n, c2)
                                     ELSE calcAcrossJointVelocityJacobian(n)]
    IN [c3 EXCEPT ![n].H = calcParentToChildVelocityJacobianInGround(n, c3)]
PositionCache(n, reversed) == PositionCacheOf(pc, n, reversed)

PositionTrace(reversed) ==
    <<"calcJointSinCosQNorm", "calcAcrossJointTransform", "calcBodyTransforms",
      IF reversed THEN "calcReverseMobilizerH_FM" ELSE "calcAcrossJointVelocityJacobian",
      "calcParentToChildVelocityJacobianInGround",
      "calcJointIndependentKinematicsPos">>

\* The dynamics cache realizeDynamics leaves: HDot_FM, then HDot, then
\* VD_PB_G.
DynamicsCacheOf(c, d, n, reversed) ==
    LET d1 == [d EXCEPT ![n].HDot_FM =
                  IF reversed THEN calcReverseMobilizerHDot_FM(n, c)
                  ELSE calcAcrossJointVelocityJacobianDot(n)]
        d2 == [d1 EXCEPT ![n].HDot =
                  calcParentToChildVelocityJacobianInGroundDot(n, c, d1)]
    IN calcJointDynamics(n, u, d2)
DynamicsCache(n, reversed) == DynamicsCacheOf(pc, dc, n, reversed)

DynamicsTrace(reversed) ==
    <<IF reversed THEN "calcReverseMobilizerHDot_FM"
                  ELSE "calcAcrossJointVelocityJacobianDot",
      "calcParentToChildVelocityJacobianInGroundDot",
      "calcJointDynamics", "calcJointIndependentDynamicsVel">>

VelocityTrace ==
    <<"calcQDot", "calcJointKinematicsVel", "calcJointIndependentKinematicsVel">>

isReversed_bad(node) == FALSE
isReversed(node) == node.isReversed

RealizeOps == {"realizePosition", "realizeVelocity", "realizeDynamics"}

\* History: what the stage function called for node n reads has been
\* computed, the node's own previous stage and the parent's same stage.
StageBefore(op) ==
    CASE op = "realizePosition" -> {}
      [] op = "realizeVelocity" -> {"realizePosition"}
      [] op = "realizeDynamics" -> {"realizePosition", "realizeVelocity"}
InOrder(op, n) ==
    /\ StageBefore(op) \subseteq realized[n]
    /\ mob[n].parent = 0 \/ op \in realized[mob[n].parent]

\* The stage check of a realize function: there is none.
realize_assert_bad(op, n) == InOrder(op, n)
realize_assert(op, n) == TRUE

RealizeCall(op, n, outOfOrder, failed) ==
    [op |-> op, node |-> n, arr |-> "none", offs |-> 0, touched |-> {},
     result |-> 0, flag |-> outOfOrder, failed |-> failed]

Realized(op, n) ==
    [realized EXCEPT ![n] = IF InOrder(op, n) THEN @ \cup {op} ELSE @ \ {op}]

realizePosition(n) ==
    /\ IF realize_assert("realizePosition", n)
         THEN /\ pc' = PositionCache(n, isReversed(nodes[n]))
              /\ trace' = PositionTrace(isReversed(nodes[n]))
              /\ realized' = Realized("realizePosition", n)
              /\ UNCHANGED aborted
         ELSE aborted' = TRUE /\ trace' = <<>> /\ UNCHANGED <<pc, realized>>
    /\ lastCall' = RealizeCall("realizePosition", n, ~InOrder("realizePosition", n),
                               ~realize_assert("realizePosition", n))
    /\ UNCHANGED <<vc, dc, qdot>>

\* calcQDot is virtual; the nodes realized here keep its default.
realizeVelocity(n) ==
    /\ IF realize_assert("realizeVelocity", n) /\ QDotAssert("calcQDot", nodes[n])
         THEN /\ qdot' = calcQDot(nodes[n], u, qdot)
              /\ vc' = calcJointKinematicsVel(n, pc, u, vc)
              /\ trace' = VelocityTrace
              /\ realized' = Realized("realizeVelocity", n)
              /\ UNCHANGED aborted
         ELSE aborted' = TRUE /\ trace' = <<>> /\ UNCHANGED <<vc, qdot, realized>>
    /\ lastCall' = RealizeCall("realizeVelocity", n, ~InOrder("realizeVelocity", n),
                               ~(realize_assert("realizeVelocity", n)
                                 /\ QDotAssert("calcQDot", nodes[n])))
    /\ UNCHANGED <<pc, dc>>

realizeDynamics(n) ==
    /\ IF realize_assert("realizeDynamics", n)
         THEN /\ dc' = DynamicsCache(n, isReversed(nodes[n]))
              /\ trace' = DynamicsTrace(isReversed(nodes[n]))
              /\ realized' = Realized("realizeDynamics", n)
              /\ UNCHANGED aborted
         ELSE aborted' = TRUE /\ trace' = <<>> /\ UNCHANGED <<dc, realized>>
    /\ lastCall' = RealizeCall("realizeDynamics", n, ~InOrder("realizeDynamics", n),
                               ~realize_assert("realizeDynamics", n))
    /\ UNCHANGED <<pc, vc, qdot>>

\* The five stage functions with an empty body.
EmptyRealizeOps ==
    {"realizeModel", "realizeInstance", "realizeTime",
     "realizeAcceleration", "realizeReport"}

EmptyBody_bad ==
    /\ qdot' = [i \in DOMAIN qdot |-> 0]
    /\ UNCHANGED <<pc, vc, dc, realized, aborted>>
EmptyBody == UNCHANGED <<pc, vc, dc, qdot, realized, aborted>>

realizeModel(n) ==
    /\ EmptyBody
    /\ trace' = <<>>
    /\ lastCall' = RealizeCall("realizeModel", n, FALSE, FALSE)

realizeInstance(n) ==
    /\ EmptyBody
    /\ trace' = <<>>
    /\ lastCall' = RealizeCall("realizeInstance", n, FALSE, FALSE)

realizeTime(n) ==
    /\ EmptyBody
    /\ trace' = <<>>
    /\ lastCall' = RealizeCall("realizeTime", n, FALSE, FALSE)

realizeAcceleration(n) ==
    /\ EmptyBody
    /\ trace' = <<>>
    /\ lastCall' = RealizeCall("realizeAcceleration", n, FALSE, FALSE)

realizeReport(n) ==
    /\ EmptyBody
    /\ trace' = <<>>
    /\ lastCall' = RealizeCall("realizeReport", n, FALSE, FALSE)

\* The caller's side of a call: any stage function, for any node, in any
\* order.
RealizeCaller ==
    /\ ~aborted
    /\ nCalls < MaxRealizeCalls
    /\ nCalls' = nCalls + 1
    /\ UNCHANGED <<nodes, builderVars, u, localOut, mob, q, uDot, mm>>

RealizePositionStep == \E n \in NodeIds : RealizeCaller /\ realizePosition(n)
RealizeVelocityStep == \E n \in NodeIds : RealizeCaller /\ realizeVelocity(n)
RealizeDynamicsStep == \E n \in NodeIds : RealizeCaller /\ realizeDynamics(n)
EmptyCaller ==
    /\ ~aborted
    /\ UNCHANGED <<nodes, builderVars, u, localOut, mob, q, uDot, nCalls, mm>>
EmptyRealizeStep ==
    \E n \in NodeIds :
        /\ EmptyCaller
        /\ \/ realizeModel(n)
           \/ realizeInstance(n)
           \/ realizeTime(n)
           \/ realizeAcceleration(n)
           \/ realizeReport(n)

\* ------------------------------------------------------------ realized trees
\* The as-defined Jacobian of a joint with dof mobilities: a rotation about
\* z, then translations along x, y, ...; and its time derivative.
UnitVec(k) == <<IF k = 1 THEN 1 ELSE 0, IF k = 2 THEN 1 ELSE 0, IF k = 3 THEN 1 ELSE 0>>
JointColumn(j) ==
    IF j = 1 THEN <<UnitVec(3), UnitVec(0)>> ELSE <<UnitVec(0), UnitVec(((j - 2) % 3) + 1)>>
JointColumnDot(j) == <<UnitVec(0), Vec3Scale(UnitVec((j % 3) + 1), j)>>

\* The fixed frames a node is constructed with: coincident with the body
\* frames, or turned away from them.
FrameChoices ==
    { [X_PF |-> Identity, X_BM |-> Identity], [X_PF |-> Flip, X_BM |-> Rot120] }

Mobilizer(dof, parent, frames) ==
    [parent    |-> parent,
     X_PF      |-> frames.X_PF,
     X_BM      |-> frames.X_BM,
     X_MB      |-> Invert(frames.X_BM),
     axis      |-> Rot120,
     H_F0M0    |-> [j \in 1..dof |-> JointColumn(j)],
     HDot_F0M0 |-> [j \in 1..dof |-> JointColumnDot(j)]]

\* Cache entries nothing has been computed into yet hold whatever an
\* earlier use left there.
StaleSpatial == << <<7, 8, 9>>, <<-7, -8, -9>> >>
StaleH(dof) == [j \in 1..dof |-> StaleSpatial]
StalePosition(dof) ==
    [X_FM |-> Mirror, X_PB |-> Flip, X_GB |-> Mirror,
     H_FM |-> StaleH(dof), H |-> StaleH(dof)]
StaleVelocity == [V_FM |-> StaleSpatial, V_PB_G |-> StaleSpatial]
StaleDynamics(dof) ==
    [HDot_FM |-> StaleH(dof), HDot |-> StaleH(dof), VD_PB_G |-> StaleSpatial]

\* The nodes realized: a one-column and a several-column Jacobian, forward
\* and reversed, with every default of this class applying.
RealizeDofs == {1, 2}
RealizeParams ==
    { p \in NodeParams(RealizeDofs, {QDotIsAlwaysTheSameAsU}, BOOLEAN) :
        p.quaternionUse = QuaternionIsNeverUsed /\ p.maxNQOverride = 0 }

\* Parent of each node (0 is ground): one body, two siblings, a chain.
TreeShapes == { <<0>>, <<0, 0>>, <<0, 1>> }

\* The state a disciplined build of ps leaves when it is complete.
CompletedState(ps) ==
    LET t == BuildTree(ps)
        last == t[Len(t)]
    IN /\ nodes = t
       /\ nextUSlot = updateSlots_U(last, last.uIndex)
       /\ nextUSqSlot = updateSlots_USq(last, last.uSqIndex)
       /\ nextQSlot = updateSlots_Q(last, last.qIndex)
       /\ slotCalls = [k \in 1..Len(t) |-> 1]
       /\ disciplined = TRUE
       /\ aborted = FALSE

\* A state of a built tree: coordinates and speeds, and caches in which
\* nothing is realized.
StateOf(seed) ==
    /\ q = [i \in 0..(NQOf(nodes) - 1) |-> seed + i]
    /\ u = [i \in 0..(NUOf(nodes) - 1) |-> seed * (i + 1)]
    /\ qdot = Garbage(NQOf(nodes))
    /\ uDot = Garbage(NUOf(nodes))
    /\ localOut = <<>>
    /\ pc = [k \in NodeIds |-> StalePosition(nodes[k].dof)]
    /\ vc = [k \in NodeIds |-> StaleVelocity]
    /\ dc = [k \in NodeIds |-> StaleDynamics(nodes[k].dof)]
    /\ realized = [k \in NodeIds |-> {}]
    /\ nCalls = 0
    /\ trace = <<>>

InitRealize ==
    /\ \E shape \in TreeShapes :
         \E ps \in [1..Len(shape) -> RealizeParams],
            fs \in [1..Len(shape) -> FrameChoices] :
           /\ CompletedState(ps)
           /\ mob = [k \in 1..Len(shape) |-> Mobilizer(ps[k].dof, shape[k], fs[k])]
    /\ lastCall = NoCall
    /\ \E seed \in 0..MaxUSeed : StateOf(seed)
    /\ mm = <<>>

NextRealize ==
    \/ RealizePositionStep
    \/ RealizeVelocityStep
    \/ RealizeDynamicsStep

SpecRealize == InitRealize /\ [][NextRealize]_vars

\* ------------------------------------------------------------ the tree walker
\* The walker realizes one stage over the whole tree before the next, and
\* within a stage a node once, after its parent; siblings in any order.
StageOps == <<"realizePosition", "realizeVelocity", "realizeDynamics">>
WalkerMay(op, n) ==
    /\ \A m \in NodeIds : StageBefore(op) \subseteq realized[m]
    /\ IF mob[n].parent = 0 THEN TRUE ELSE op \in realized[mob[n].parent]
    /\ op \notin realized[n]

WalkCaller ==
    /\ ~aborted
    /\ nCalls' = nCalls + 1
    /\ UNCHANGED <<nodes, builderVars, u, localOut, mob, q, uDot, mm>>

WalkPositionStep ==
    \E n \in NodeIds :
        WalkerMay("realizePosition", n) /\ WalkCaller /\ realizePosition(n)
WalkVelocityStep ==
    \E n \in NodeIds :
        WalkerMay("realizeVelocity", n) /\ WalkCaller /\ realizeVelocity(n)
WalkDynamicsStep ==
    \E n \in NodeIds :
        WalkerMay("realizeDynamics", n) /\ WalkCaller /\ realizeDynamics(n)

\* Two siblings, two siblings under a common parent, a chain of three.
WalkShapes == { <<0, 0>>, <<0, 1, 1>>, <<0, 1, 2>> }

InitWalk ==
    /\ \E shape \in WalkShapes :
         \E ps \in [1..Len(shape) -> RealizeParams],
            fs \in [1..Len(shape) -> FrameChoices] :
           /\ CompletedState(ps)
           /\ mob = [k \in 1..Len(shape) |-> Mobilizer(ps[k].dof, shape[k], fs[k])]
    /\ lastCall = NoCall
    /\ \E seed \in 0..MaxUSeed : StateOf(seed)
    /\ mm = <<>>

NextWalk ==
    \/ WalkPositionStep
    \/ WalkVelocityStep
    \/ WalkDynamicsStep

SpecWalk == InitWalk /\ [][NextWalk]_vars

\* --------------------------------------------------- the empty stage functions
\* The walker on the realized trees, and the empty stage functions called
\* for any node between any two of its steps, any number of times.
NextEmpty ==
    \/ WalkPositionStep
    \/ WalkVelocityStep
    \/ WalkDynamicsStep
    \/ EmptyRealizeStep

SpecEmpty == InitRealize /\ [][NextEmpty]_vars

\* ------------------------------------------- the inertia and mass-matrix passes
\* The bodies of the articulated-body-inertia pass and of the four
\* mass-matrix passes are not part of RigidBodyNodeSpec.h, which only
\* declares them. They are modelled from their declarations (which arrays
\* each pass reads and writes) and from sections 4.3 and 4.4 of the
\* specification, in exact rational arithmetic: a rational is <<n, d>> in
\* lowest terms with d > 0.
Abs(i) == IF i < 0 THEN -i ELSE i
RECURSIVE GCD(_, _)
GCD(a, b) == IF b = 0 THEN a ELSE GCD(b, a % b)
Rat(n, d) ==
    LET g == GCD(Abs(n), Abs(d))
        s == IF d < 0 THEN -1 ELSE 1
    IN <<(s * n) \div g, (s * d) \div g>>
RatOf(i) == <<i, 1>>
RAdd(x, y) == Rat(x[1] * y[2] + y[1] * x[2], x[2] * y[2])
RSub(x, y) == Rat(x[1] * y[2] - y[1] * x[2], x[2] * y[2])
RMul(x, y) == Rat(x[1] * y[1], x[2] * y[2])
RInv(x) == Rat(x[2], x[1])

\* Spatial vectors of rationals, laid out angular part first, and the 6x6
\* matrices acting on them, stored by rows.
Zero6 == <<RatOf(0), RatOf(0), RatOf(0), RatOf(0), RatOf(0), RatOf(0)>>
Flat(sv) ==
    <<RatOf(sv[1][1]), RatOf(sv[1][2]), RatOf(sv[1][3]),
      RatOf(sv[2][1]), RatOf(sv[2][2]), RatOf(sv[2][3])>>
VAdd6(a, b) ==
    <<RAdd(a[1], b[1]), RAdd(a[2], b[2]), RAdd(a[3], b[3]),
      RAdd(a[4], b[4]), RAdd(a[5], b[5]), RAdd(a[6], b[6])>>
VSub6(a, b) ==
    <<RSub(a[1], b[1]), RSub(a[2], b[2]), RSub(a[3], b[3]),
      RSub(a[4], b[4]), RSub(a[5], b[5]), RSub(a[6], b[6])>>
VScale6(a, r) ==
    <<RMul(a[1], r), RMul(a[2], r), RMul(a[3], r),
      RMul(a[4], r), RMul(a[5], r), RMul(a[6], r)>>
Dot6(a, b) ==
    RAdd(RAdd(RAdd(RMul(a[1], b[1]), RMul(a[2], b[2])),
              RAdd(RMul(a[3], b[3]), RMul(a[4], b[4]))),
         RAdd(RMul(a[5], b[5]), RMul(a[6], b[6])))
ZeroMat6 == <<Zero6, Zero6, Zero6, Zero6, Zero6, Zero6>>
MatAdd6(A, B) ==
    <<VAdd6(A[1], B[1]), VAdd6(A[2], B[2]), VAdd6(A[3], B[3]),
      VAdd6(A[4], B[4]), VAdd6(A[5], B[5]), VAdd6(A[6], B[6])>>
MatSub6(A, B) ==
    <<VSub6(A[1], B[1]), VSub6(A[2], B[2]), VSub6(A[3], B[3]),
      VSub6(A[4], B[4]), VSub6(A[5], B[5]), VSub6(A[6], B[6])>>
MatVec6(A, v) ==
    <<Dot6(A[1], v), Dot6(A[2], v), Dot6(A[3], v),
      Dot6(A[4], v), Dot6(A[5], v), Dot6(A[6], v)>>
Outer6(a, b) ==
    <<VScale6(b, a[1]), VScale6(b, a[2]), VScale6(b, a[3]),
      VScale6(b, a[4]), VScale6(b, a[5]), VScale6(b, a[6])>>
Diag6(d) ==
    <<<<d[1], RatOf(0), RatOf(0), RatOf(0), RatOf(0), RatOf(0)>>,
      <<RatOf(0), d[2], RatOf(0), RatOf(0), RatOf(0), RatOf(0)>>,
      <<RatOf(0), RatOf(0), d[3], RatOf(0), RatOf(0), RatOf(0)>>,
      <<RatOf(0), RatOf(0), RatOf(0), d[4], RatOf(0), RatOf(0)>>,
      <<RatOf(0), RatOf(0), RatOf(0), RatOf(0), d[5], RatOf(0)>>,
      <<RatOf(0), RatOf(0), RatOf(0), RatOf(0), RatOf(0), d[6]>>>>

\* The mass properties a node is constructed with (mProps_B): principal
\* moments about the body axes and a mass, the centre of mass at the
\* body origin; positive definite, and different for every body.
mProps_B(n) == [inertia |-> <<n + 1, n + 2, 2 * n + 1>>, mass |-> n]

\* The body's spatial inertia expressed in ground.
getMk_G(n) ==
    LET m == mProps_B(n).mass IN
    Diag6(Flat(<<Rotate(pc[n].X_GB, mProps_B(n).inertia), <<m, m, m>>>>))

\* The one column of H of a node with one mobility; the generalized force
\* handed in for it.
HColumn(n) == Flat(pc[n].H[1])
ForceOf(n) == RatOf(u[nodes[n].uIndex])

MassStart ==
    [step    |-> 0,
     P       |-> [n \in NodeIds |-> ZeroMat6],
     DI      |-> [n \in NodeIds |-> RatOf(0)],
     G       |-> [n \in NodeIds |-> Zero6],
     allZ    |-> [n \in NodeIds |-> Zero6],
     allGepsilon |-> [n \in NodeIds |-> Zero6],
     allEpsilon  |-> [n \in NodeIds |-> RatOf(0)],
     allA_GB |-> [n \in NodeIds |-> Zero6],
     allUDot |-> [n \in NodeIds |-> RatOf(0)],
     allFTmp |-> [n \in NodeIds |-> Zero6],
     allTau  |-> [n \in NodeIds |-> RatOf(0)]]

\* What a child hands to its parent's inertia composition: its own
\* articulated-body inertia discounted by its gain matrix.
PPlus(c) == MatSub6(mm.P[c], Outer6(mm.G[c], MatVec6(mm.P[c], HColumn(c))))

RECURSIVE SumPPlus(_, _)
SumPPlus(n, c) ==
    IF c = 0 THEN ZeroMat6
    ELSE IF mob[c].parent = n THEN MatAdd6(PPlus(c), SumPPlus(n, c - 1))
    ELSE SumPPlus(n, c - 1)

\* Tip-to-base inertia composition (4.3): P, the inverse DI of the
\* projected inertia H~ P H, and the gain G = P H DI.
calcArticulatedBodyInertiasInward(n) ==
    LET P  == MatAdd6(getMk_G(n), SumPPlus(n, Len(nodes)))
        PH == MatVec6(P, HColumn(n))
        DI == RInv(Dot6(HColumn(n), PH))
    IN [mm EXCEPT !.P[n] = P, !.DI[n] = DI, !.G[n] = VScale6(PH, DI)]

RECURSIVE SumZ(_, _)
SumZ(n, c) ==
    IF c = 0 THEN Zero6
    ELSE IF mob[c].parent = n
         THEN VAdd6(VAdd6(mm.allZ[c], mm.allGepsilon[c]), SumZ(n, c - 1))
    ELSE SumZ(n, c - 1)

\* Inward pass of M^-1 f (4.3 with f the only force): z from the
\* children's z and G epsilon, epsilon = f - H~ z, and G epsilon.
calcMInverseFPass1Inward_bad(n) ==
    LET z   == SumZ(n, Len(nodes))
        eps == ForceOf(n)
    IN [mm EXCEPT !.allZ[n] = z, !.allEpsilon[n] = eps,
                  !.allGepsilon[n] = VScale6(mm.G[n], eps)]

calcMInverseFPass1Inward(n) ==
    LET z   == SumZ(n, Len(nodes))
        eps == RSub(ForceOf(n), Dot6(HColumn(n), z))
    IN [mm EXCEPT !.allZ[n] = z, !.allEpsilon[n] = eps,
                  !.allGepsilon[n] = VScale6(mm.G[n], eps)]

\* The parent's spatial acceleration; ground does not accelerate.
A_GP(n) == IF mob[n].parent = 0 THEN Zero6 ELSE mm.allA_GB[mob[n].parent]

\* Outward pass of M^-1 f: udot = DI epsilon - G~ A_GP, A_GB = A_GP + H udot.
calcMInverseFPass2Outward(n) ==
    LET udot == RSub(RMul(mm.DI[n], mm.allEpsilon[n]), Dot6(mm.G[n], A_GP(n)))
    IN [mm EXCEPT !.allUDot[n] = udot,
                  !.allA_GB[n] = VAdd6(A_GP(n), VScale6(HColumn(n), udot))]

\* Outward pass of M a (4.4): A_GB = A_GP + H udot.
calcMAPass1Outward(n) ==
    [mm EXCEPT !.allA_GB[n] = VAdd6(A_GP(n), VScale6(HColumn(n), mm.allUDot[n]))]

RECURSIVE SumF(_, _)
SumF(n, c) ==
    IF c = 0 THEN Zero6
    ELSE IF mob[c].parent = n THEN VAdd6(mm.allFTmp[c], SumF(n, c - 1))
    ELSE SumF(n, c - 1)

\* Inward pass of M a: F = Mk A_GB + the children's F, tau = H~ F.
calcMAPass2Inward(n) ==
    LET F == VAdd6(MatVec6(getMk_G(n), mm.allA_GB[n]), SumF(n, Len(nodes)))
    IN [mm EXCEPT !.allFTmp[n] = F, !.allTau[n] = Dot6(HColumn(n), F)]

\* The walker runs six sweeps over the tree, one after the other: positions
\* base to tip, inertias tip to base, then the two passes of M^-1 f and
\* the two passes of M a. Sweep and node of the next call:
MassSweep == mm.step \div Len(nodes)
Outward == (mm.step % Len(nodes)) + 1
Inward == Len(nodes) - (mm.step % Len(nodes))
MassDone == mm.step = 6 * Len(nodes)

MassCaller(op, n, next) ==
    /\ ~aborted
    /\ mm' = [next EXCEPT !.step = mm.step + 1]
    /\ lastCall' = RealizeCall(op, n, FALSE, FALSE)
    /\ UNCHANGED <<nodes, builderVars, aborted, arrayVars, mob, q, uDot,
                   pc, vc, dc, realized, nCalls, trace>>

MassPositionStep ==
    /\ MassSweep = 0
    /\ ~aborted
    /\ realizePosition(Outward)
    /\ mm' = [mm EXCEPT !.step = mm.step + 1]
    /\ UNCHANGED <<nodes, builderVars, u, localOut, mob, q, uDot, nCalls>>

ArticulatedBodyInertiasStep ==
    /\ MassSweep = 1
    /\ MassCaller("calcArticulatedBodyInertiasInward", Inward,
                  calcArticulatedBodyInertiasInward(Inward))

MInverseFPass1Step ==
    /\ MassSweep = 2
    /\ MassCaller("calcMInverseFPass1Inward", Inward, calcMInverseFPass1Inward(Inward))

MInverseFPass2Step ==
    /\ MassSweep = 3
    /\ MassCaller("calcMInverseFPass2Outward", Outward, calcMInverseFPass2Outward(Outward))

MAPass1Step ==
    /\ MassSweep = 4
    /\ MassCaller("calcMAPass1Outward", Outward, calcMAPass1Outward(Outward))

MAPass2Step ==
    /\ MassSweep = 5
    /\ MassCaller("calcMAPass2Inward", Inward, calcMAPass2Inward(Inward))

\* Trees of one-mobility joints, so that the projected inertia is 1x1:
\* one body, siblings, chains and a chain with a branch.
MassShapes == { <<0>>, <<0, 0>>, <<0, 1>>, <<0, 1, 1>>, <<0, 1, 2>> }
MassParams == { p \in RealizeParams : p.dof = 1 }

InitMass ==
    /\ \E shape \in MassShapes :
         \E ps \in [1..Len(shape) -> MassParams],
            fs \in [1..Len(shape) -> FrameChoices] :
           /\ CompletedState(ps)
           /\ mob = [k \in 1..Len(shape) |-> Mobilizer(ps[k].dof, shape[k], fs[k])]
    /\ lastCall = NoCall
    /\ \E seed \in 0..MaxUSeed : StateOf(seed)
    /\ mm = MassStart

NextMass ==
    \/ MassPositionStep
    \/ ArticulatedBodyInertiasStep
    \/ MInverseFPass1Step
    \/ MInverseFPass2Step
    \/ MAPass1Step
    \/ MAPass2Step

SpecMass == InitMass /\ [][NextMass]_vars

\* ------------------------------------------------------- fitting q and u
\* Every mobilizer implements the four sub-fits itself (there are no
\* defaults). The ones here are those of a joint whose first coordinate is
\* rotational and whose second, if it has one, is translational and
\* measured from where the rotation has put it. Each takes the array it
\* works on together with the calls made so far, and adds its own call.
RotCode(R_FM) == 10 * R_FM[1] + R_FM[2]

setQToFitRotationImpl(n, R_FM, st) ==
    [arr   |-> [st.arr EXCEPT ![nodes[n].qIndex] = RotCode(R_FM)],
     calls |-> Append(st.calls, [fn |-> "setQToFitRotationImpl", arg |-> R_FM])]

setQToFitTranslationImpl(n, p_FM, st) ==
    [arr   |-> IF nodes[n].dof >= 2
                 THEN [st.arr EXCEPT ![nodes[n].qIndex + 1] =
                                        p_FM[1] + st.arr[nodes[n].qIndex]]
                 ELSE st.arr,
     calls |-> Append(st.calls, [fn |-> "setQToFitTranslationImpl", arg |-> p_FM])]

setUToFitAngularVelocityImpl(n, qq, w_FM, st) ==
    [arr   |-> [st.arr EXCEPT ![nodes[n].uIndex] = w_FM[3] + (qq[nodes[n].qIndex] % 2)],
     calls |-> Append(st.calls, [fn |-> "setUToFitAngularVelocityImpl", arg |-> w_FM])]

setUToFitLinearVelocityImpl(n, qq, v_FM, st) ==
    [arr   |-> IF nodes[n].dof >= 2
                 THEN [st.arr EXCEPT ![nodes[n].uIndex + 1] =
                                        v_FM[1] - st.arr[nodes[n].uIndex]]
                 ELSE st.arr,
     calls |-> Append(st.calls, [fn |-> "setUToFitLinearVelocityImpl", arg |-> v_FM])]

\* The defaults of this class.
setQToFitTransformImpl_bad(n, X_FM, qq) ==
    setQToFitRotationImpl(n, X_FM.R,
        setQToFitTranslationImpl(n, X_FM.p, [arr |-> qq, calls |-> <<>>]))

setQToFitTransformImpl(n, X_FM, qq) ==
    setQToFitTranslationImpl(n, X_FM.p,
        setQToFitRotationImpl(n, X_FM.R, [arr |-> qq, calls |-> <<>>]))

setUToFitVelocityImpl(n, qq, V_FM, uu) ==
    setUToFitLinearVelocityImpl(n, qq, V_FM[2],
        setUToFitAngularVelocityImpl(n, qq, V_FM[1], [arr |-> uu, calls |-> <<>>]))

\* The targets handed in: a transform is its rotation R and translation p.
FitTransforms ==
    { [R |-> r, p |-> pp] : r \in {Rot120, Flip}, pp \in {<<1, 2, 3>>, <<3, 1, 2>>} }
FitVelocities ==
    { <<w, v>> : w \in {<<0, 0, 1>>, <<0, 0, 2>>}, v \in {<<1, 0, 0>>, <<2, 1, 0>>} }

FitCall(op, n, target) ==
    [RealizeCall(op, n, FALSE, FALSE) EXCEPT !.result = target]

FitTransformStep ==
    /\ ~aborted
    /\ \E n \in NodeIds, X_FM \in FitTransforms :
         /\ q' = setQToFitTransformImpl(n, X_FM, q).arr
         /\ trace' = setQToFitTransformImpl(n, X_FM, q).calls
         /\ lastCall' = FitCall("setQToFitTransformImpl", n, X_FM)
    /\ UNCHANGED <<nodes, builderVars, aborted, arrayVars, mob, uDot,
                   pc, vc, dc, realized, nCalls, mm>>

FitVelocityStep ==
    /\ ~aborted
    /\ \E n \in NodeIds, V_FM \in FitVelocities :
         /\ u' = setUToFitVelocityImpl(n, q, V_FM, u).arr
         /\ trace' = setUToFitVelocityImpl(n, q, V_FM, u).calls
         /\ lastCall' = FitCall("setUToFitVelocityImpl", n, V_FM)
    /\ UNCHANGED <<nodes, builderVars, aborted, qdot, localOut, mob, q, uDot,
                   pc, vc, dc, realized, nCalls, mm>>

FitShapes == { <<0>>, <<0, 0>> }
FitParams == { p \in RealizeParams : ~p.isReversed }

InitFit ==
    /\ \E shape \in FitShapes :
         \E ps \in [1..Len(shape) -> FitParams] :
           /\ CompletedState(ps)
           /\ mob = [k \in 1..Len(shape) |->
                       Mobilizer(ps[k].dof, shape[k],
                                 [X_PF |-> Identity, X_BM |-> Identity])]
    /\ lastCall = NoCall
    /\ \E seed \in 0..MaxUSeed : StateOf(seed)
    /\ mm = <<>>

NextFit ==
    \/ FitTransformStep
    \/ FitVelocityStep

SpecFit == InitFit /\ [][NextFit]_vars

\* ------------------------------------------------------- copying q and u
\* copyQ(mv, qIn, q): toQ(q) = fromQ(qIn) behind its assertion;
\* copyU(mv, uIn, u): toU(u) = fromU(uIn), with no assertion.
copyQ_assert(node) == node.quaternionUse = QuaternionIsNeverUsed
copyQ_bad(node, qIn, qq) == AssignView(qq, fromQ(node), qIn, fromU(node))
copyQ(node, qIn, qq) == AssignView(qq, fromQ(node), qIn, fromQ(node))
copyU(node, uIn, uu) == AssignView(uu, fromU(node), uIn, fromU(node))

\* The default copyQ body running on node n, handed q as qIn and qdot as
\* the q-sized output array.
CopyQStep ==
    /\ ~aborted
    /\ \E n \in NodeIds :
         /\ IF copyQ_assert(nodes[n])
              THEN /\ qdot' = copyQ(nodes[n], q, qdot)
                   /\ realized' = [realized EXCEPT ![n] = @ \cup {"copyQ"}]
                   /\ UNCHANGED aborted
              ELSE aborted' = TRUE /\ UNCHANGED <<qdot, realized>>
         /\ lastCall' = QDotCall("copyQ", n, ~copyQ_assert(nodes[n]))
    /\ UNCHANGED <<nodes, builderVars, u, localOut, mob, q, uDot,
                   pc, vc, dc, nCalls, trace, mm>>

\* copyU running on node n, handed u as uIn and uDot as the u-sized output
\* array.
CopyUStep ==
    /\ ~aborted
    /\ \E n \in NodeIds :
         /\ uDot' = copyU(nodes[n], u, uDot)
         /\ realized' = [realized EXCEPT ![n] = @ \cup {"copyU"}]
         /\ lastCall' = QDotCall("copyU", n, FALSE)
    /\ UNCHANGED <<nodes, builderVars, aborted, arrayVars, mob, q,
                   pc, vc, dc, nCalls, trace, mm>>

\* Nodes with one and two mobilities, without a quaternion or with one
\* that takes one more q than u.
CopyParams ==
    { p \in WellFormedCounts(NodeParams({1, 2}, {QDotIsAlwaysTheSameAsU}, {FALSE})) :
        p.maxNQOverride \in {0, p.dof + 1} }

InitCopy ==
    /\ \E ps \in ParamSeqs(CopyParams, CopyParams, MaxNodes) : CompletedState(ps)
    /\ lastCall = NoCall
    /\ \E seed \in 1..MaxUSeed :
         /\ q = [i \in 0..(NQOf(nodes) - 1) |-> seed + 2 * i]
         /\ u = [i \in 0..(NUOf(nodes) - 1) |-> seed * (i + 1)]
    /\ qdot = Garbage(NQOf(nodes))
    /\ uDot = Garbage(NUOf(nodes))
    /\ localOut = <<>>
    /\ realized = [k \in NodeIds |-> {}]
    /\ mob = <<>> /\ pc = <<>> /\ vc = <<>> /\ dc = <<>>
    /\ nCalls = 0 /\ trace = <<>> /\ mm = <<>>

NextCopy ==
    \/ CopyQStep
    \/ CopyUStep

SpecCopy == InitCopy /\ [][NextCopy]_vars

\* ------------------------------------------------------------ slot ranges
URange(node) == node.uIndex .. (node.uIndex + getDOF(node) - 1)
USqRange(node) == node.uSqIndex .. (node.uSqIndex + getDOF(node) * getDOF(node) - 1)
QRange(node) == node.qIndex .. (node.qIndex + getMaxNQ(node) - 1)

SameIndices(a, b) ==
    a.uIndex = b.uIndex /\ a.uSqIndex = b.uSqIndex /\ a.qIndex = b.qIndex

C1_Disjoint ==
    \A i, j \in NodeIds :
        i # j => /\ URange(nodes[i]) \cap URange(nodes[j]) = {}
                 /\ USqRange(nodes[i]) \cap USqRange(nodes[j]) = {}
                 /\ QRange(nodes[i]) \cap QRange(nodes[j]) = {}

C1_Dense ==
    \A k \in NodeIds :
        k > 1 => /\ nodes[k].uIndex = nodes[k-1].uIndex + getDOF(nodes[k-1])
                 /\ nodes[k].uSqIndex =
                        nodes[k-1].uSqIndex + getDOF(nodes[k-1]) * getDOF(nodes[k-1])
                 /\ nodes[k].qIndex = nodes[k-1].qIndex + getMaxNQ(nodes[k-1])

C1_IndicesStable ==
    \A n \in NodeIds : n \in 1..Len(nodes') /\ SameIndices(nodes'[n], nodes[n])

\* C1: when every construction was followed by exactly one updateSlots call
\* on the same three counters, the nodes' u, uSq and q ranges are pairwise
\* disjoint and dense (each starts where the previously built node's range
\* ended), and no step ever changes the three indices of a constructed node.
C1_SlotsDisjointDenseStable ==
    /\ [](disciplined => (C1_Disjoint /\ C1_Dense))
    /\ [][C1_IndicesStable]_vars

\* Two nodes built under the discipline, the first with more q's than u's.
C1_Witness ==
    /\ disciplined
    /\ Len(nodes) = 2
    /\ slotCalls = <<1, 1>>
    /\ getMaxNQ(nodes[1]) > getDOF(nodes[1])
    /\ nodes[2].qIndex > nodes[2].uIndex
    /\ nextQSlot = nodes[2].qIndex + getMaxNQ(nodes[2])

\* --------------------------------------------------- accessors stay in range
OwnRange(arr, node) ==
    CASE arr = "q"   -> QRange(node)
      [] arr = "u"   -> URange(node)
      [] arr = "uSq" -> USqRange(node)

CalledNode == nodes[lastCall.node]

\* C2 as stated: every accessor's view lies inside the node's own range of
\* the array it indexes.
C2_Original ==
    lastCall.op \in Accessors /\ ~lastCall.failed =>
        lastCall.touched \subseteq OwnRange(lastCall.arr, CalledNode)

\* C2 as amended: the dof-sized and the scalar accessors stay inside the
\* node's own range; the quaternion accessors touch the 4 entries from
\* qIndex, which lie inside the node's q range exactly when its maxNQ is at
\* least 4; the Vec3-at-offset accessors touch the 3 entries from
\* index+offs, which lie inside exactly when offs+3 is at most maxNQ (q) or
\* dof (u).
C2_AccessWithinRange ==
    lastCall.op \in Accessors /\ ~lastCall.failed =>
        LET node == CalledNode
            t == lastCall.touched
            inside == t \subseteq OwnRange(lastCall.arr, node)
        IN /\ lastCall.op \notin QuatAccessors \cup Vec3Accessors => inside
           /\ lastCall.op \in QuatAccessors =>
                 /\ t = node.qIndex .. (node.qIndex + 3)
                 /\ inside <=> getMaxNQ(node) >= 4
           /\ lastCall.op \in QVec3Accessors =>
                 /\ t = (node.qIndex + lastCall.offs) .. (node.qIndex + lastCall.offs + 2)
                 /\ inside <=> lastCall.offs + 3 <= getMaxNQ(node)
           /\ lastCall.op \in UVec3Accessors =>
                 /\ t = (node.uIndex + lastCall.offs) .. (node.uIndex + lastCall.offs + 2)
                 /\ inside <=> lastCall.offs + 3 <= getDOF(node)

\* toQuat on a second node whose q slice is shifted against its u slice and
\* holds a quaternion: the view is inside the node's q range.
C2_Witness ==
    /\ lastCall.op = "toQuat"
    /\ lastCall.node = 2
    /\ CalledNode.qIndex > CalledNode.uIndex
    /\ getMaxNQ(CalledNode) = 4
    /\ lastCall.touched \subseteq QRange(CalledNode)

\* ------------------------------------ quaternion accessors and the mode
\* C5 as stated: a quaternion-only accessor called on a node whose mode is
\* QuaternionIsNeverUsed fails (assertion, abort) and returns no view.
C5_Original ==
    lastCall.op \in QuatAccessors /\ CalledNode.quaternionUse = QuaternionIsNeverUsed =>
        lastCall.failed /\ aborted /\ lastCall.touched = {}

\* C5 as amended: the quaternion accessors check nothing; on every node,
\* QuaternionIsNeverUsed or not, they return normally the view of the 4
\* entries that start at the node's qIndex.
C5_QuatAccessorsUnchecked ==
    lastCall.op \in QuatAccessors =>
        /\ ~lastCall.failed
        /\ ~aborted
        /\ Cardinality(lastCall.touched) = 4
        /\ \A i \in lastCall.touched : i >= CalledNode.qIndex

\* fromQuat on a 1-dof node that never uses a quaternion: 4 entries.
C5_Witness ==
    /\ lastCall.op = "fromQuat"
    /\ CalledNode.quaternionUse = QuaternionIsNeverUsed
    /\ getMaxNQ(CalledNode) = 1
    /\ ~aborted
    /\ Cardinality(lastCall.touched) = 4

\* --------------------------------------------- default coordinate counts
\* C6: on a node whose mode is QuaternionIsNeverUsed the default getMaxNQ,
\* getNQInUse and getNUInUse return dof (so dof <= NQInUse <= maxNQ) and
\* the default isUsingQuaternion returns false with startOfQuaternion
\* invalidated; on a node of any other mode the default getMaxNQ,
\* getNQInUse and isUsingQuaternion fail their assertion; and a virtual
\* getMaxNQ() call returns more than dof only through an override.
C6_DefaultCounts ==
    /\ lastCall.op \in CountMethods =>
          LET node == CalledNode IN
          /\ node.quaternionUse = QuaternionIsNeverUsed =>
                /\ ~lastCall.failed /\ ~aborted
                /\ lastCall.op # "isUsingQuaternion" =>
                      /\ lastCall.result = getDOF(node)
                      /\ getDOF(node) <= lastCall.result
                      /\ lastCall.result <= getMaxNQ_default(node)
                /\ lastCall.op = "isUsingQuaternion" =>
                      lastCall.flag = FALSE /\ lastCall.result = InvalidIndex
          /\ node.quaternionUse # QuaternionIsNeverUsed =>
                IF lastCall.op = "getNUInUse"
                THEN ~lastCall.failed /\ ~aborted /\ lastCall.result = getDOF(node)
                ELSE lastCall.failed /\ aborted
    /\ lastCall.op = "getMaxNQ()" =>
          IF lastCall.failed
          THEN aborted /\ CalledNode.quaternionUse # QuaternionIsNeverUsed
          ELSE lastCall.result > getDOF(CalledNode) => getMaxNQ_overridden(CalledNode)

\* The default getNQInUse reached on a node that may use a quaternion.
C6_Witness ==
    /\ lastCall.op = "getNQInUse"
    /\ CalledNode.quaternionUse = QuaternionMayBeUsed
    /\ lastCall.failed
    /\ aborted

\* ------------------------------------------------ qdot = u, qdotdot = udot
C4_Step ==
    (/\ lastCall = NoCall
     /\ lastCall'.op \in QDotMethods
     /\ nodes[lastCall'.node].qdotHandling = QDotIsAlwaysTheSameAsU)
    => LET node == nodes[lastCall'.node] IN
       /\ ~lastCall'.failed /\ ~aborted'
       /\ u' = u
       /\ DOMAIN qdot' = DOMAIN qdot
       /\ \A i \in DOMAIN qdot :
             qdot'[i] = IF node.qIndex <= i /\ i < node.qIndex + node.dof
                        THEN u[node.uIndex + (i - node.qIndex)]
                        ELSE qdot[i]

\* C4: on a node whose mode is QDotIsAlwaysTheSameAsU the default calcQDot
\* (calcQDotDot) makes the node's dof entries of qdot (qdotdot) at qIndex
\* equal to its dof entries of u (udot) at uIndex, and changes neither the
\* input array nor any other entry of the output array.
C4_IdentityQDot == [][C4_Step]_vars

\* calcQDot has run on a second node whose q slice is shifted against its
\* u slice; the first node's entries of qdot are still as handed over.
C4_Witness ==
    /\ lastCall.op = "calcQDot"
    /\ lastCall.node = 2
    /\ ~lastCall.failed
    /\ CalledNode.dof >= 2
    /\ CalledNode.qIndex > CalledNode.uIndex
    /\ qdot[CalledNode.qIndex + 1] = u[CalledNode.uIndex + 1]
    /\ u[CalledNode.uIndex + 1] > 0
    /\ qdot[0] < 0

\* ------------------------------------- defaults on a joint-specific qdot
AllQDotMethods == QDotMethods \cup LocalQDotMethods

C7_Failed ==
    lastCall.op \in AllQDotMethods
       /\ CalledNode.qdotHandling # QDotIsAlwaysTheSameAsU
    => lastCall.failed /\ aborted

C7_Step ==
    lastCall'.op \in AllQDotMethods /\ lastCall'.failed
    => qdot' = qdot /\ localOut' = localOut /\ u' = u

\* C7: each of the six default coordinate-derivative methods, run on a node
\* whose mode is not QDotIsAlwaysTheSameAsU, fails its assertion, and the
\* failing call leaves the output arrays (and the input) as they were.
C7_DefaultsAssertMode == []C7_Failed /\ [][C7_Step]_vars

\* calcQDot has filled the first node's entries; multiplyByN then fails on
\* the second node, whose entries of qdot are still as handed over.
C7_Witness ==
    /\ lastCall.op = "multiplyByN"
    /\ lastCall.node = 2
    /\ lastCall.failed
    /\ aborted
    /\ u[0] > 0
    /\ qdot[0] = u[0]
    /\ qdot[CalledNode.qIndex] < 0
    /\ localOut = Garbage(MaxCopyDof)

\* ------------------------------------------------- realizing out of order
RealizedNode == lastCall.node
USpeeds(n) == ViewOf(u, fromU(nodes[n]))

\* C3, as the specification states it: a realize call made out of order
\* (realizeVelocity before the node's position stage, realizeDynamics before
\* its velocity stage, realizePosition before the parent's) ends in a fatal
\* assertion and never completes normally.
C3_Original ==
    (lastCall.op \in RealizeOps /\ lastCall.flag) => (lastCall.failed /\ aborted)

\* C3, as the code has it: the realize functions make no stage check.  A call
\* made in or out of order completes normally, having made every call of
\* its body, and leaves the entries it writes computed from the cache
\* contents it found, realized or not.
C3_NoStageCheck ==
    lastCall.op \in RealizeOps =>
        /\ ~lastCall.failed
        /\ ~aborted
        /\ CASE lastCall.op = "realizePosition" ->
                  /\ Len(trace) = Len(PositionTrace(FALSE))
                  /\ pc[RealizedNode].X_GB =
                       Compose(getX_GP(RealizedNode, pc), pc[RealizedNode].X_PB)
             [] lastCall.op = "realizeVelocity" ->
                  /\ trace = VelocityTrace
                  /\ vc[RealizedNode].V_PB_G =
                       Mul(pc[RealizedNode].H, USpeeds(RealizedNode))
             [] lastCall.op = "realizeDynamics" ->
                  /\ Len(trace) = Len(DynamicsTrace(FALSE))
                  /\ dc[RealizedNode].VD_PB_G =
                       Mul(dc[RealizedNode].HDot, USpeeds(RealizedNode))

\* realizeVelocity has run to completion on a node whose position stage was
\* never realized, multiplying the stale Jacobian by nonzero speeds.
C3_Witness ==
    /\ lastCall.op = "realizeVelocity"
    /\ lastCall.flag
    /\ ~aborted
    /\ "realizePosition" \notin realized[RealizedNode]
    /\ pc[RealizedNode].H = StaleH(nodes[RealizedNode].dof)
    /\ vc[RealizedNode].V_PB_G = Mul(StaleH(nodes[RealizedNode].dof), USpeeds(RealizedNode))
    /\ vc[RealizedNode].V_PB_G # ZeroSpatial

\* ------------------------------------------------------- reversed mobilizers
Called(fn) == \E i \in 1..Len(trace) : trace[i] = fn

\* C8: realizePosition caches, for a reversed node, the inverse of the
\* as-defined across-joint transform as X_FM and the output of
\* calcReverseMobilizerH_FM as H_FM, and realizeDynamics the output of
\* calcReverseMobilizerHDot_FM as HDot_FM, never the as-defined value; for a
\* node that is not reversed the as-defined functions write the entries and
\* the adapters are not called.
C8_ReversedUsesAdapters ==
    LET n == RealizedNode
        X_F0M0 == calcAcrossJointTransform(n, q)
    IN /\ lastCall.op = "realizePosition" =>
            IF nodes[n].isReversed
              THEN /\ pc[n].X_FM = Invert(X_F0M0)
                   /\ Compose(pc[n].X_FM, X_F0M0) = Identity
                   /\ pc[n].H_FM = calcReverseMobilizerH_FM(n, pc)
                   /\ pc[n].H_FM # calcAcrossJointVelocityJacobian(n)
                   /\ Called("calcReverseMobilizerH_FM")
                   /\ ~Called("calcAcrossJointVelocityJacobian")
              ELSE /\ pc[n].X_FM = X_F0M0
                   /\ pc[n].H_FM = calcAcrossJointVelocityJacobian(n)
                   /\ Called("calcAcrossJointVelocityJacobian")
                   /\ ~Called("calcReverseMobilizerH_FM")
       /\ lastCall.op = "realizeDynamics" =>
            IF nodes[n].isReversed
              THEN /\ dc[n].HDot_FM = calcReverseMobilizerHDot_FM(n, pc)
                   /\ dc[n].HDot_FM # calcAcrossJointVelocityJacobianDot(n)
                   /\ Called("calcReverseMobilizerHDot_FM")
                   /\ ~Called("calcAcrossJointVelocityJacobianDot")
              ELSE /\ dc[n].HDot_FM = calcAcrossJointVelocityJacobianDot(n)
                   /\ Called("calcAcrossJointVelocityJacobianDot")
                   /\ ~Called("calcReverseMobilizerHDot_FM")

\* realizeDynamics has run on a reversed node whose position is realized,
\* whose as-defined transform is not its own inverse and whose cached
\* Jacobians differ from the as-defined ones.
C8_Witness ==
    LET n == RealizedNode IN
    /\ lastCall.op = "realizeDynamics"
    /\ nodes[n].isReversed
    /\ "realizePosition" \in realized[n]
    /\ pc[n].X_FM # calcAcrossJointTransform(n, q)
    /\ pc[n].H_FM # calcAcrossJointVelocityJacobian(n)
    /\ dc[n].HDot_FM = calcReverseMobilizerHDot_FM(n, pc)
    /\ dc[n].HDot_FM # calcAcrossJointVelocityJacobianDot(n)

\* ------------------------------------------------------------ body transforms
RECURSIVE PathProduct(_)
PathProduct(n) ==
    IF n = 0 THEN Identity ELSE Compose(PathProduct(mob[n].parent), pc[n].X_PB)

C9_Transforms ==
    \A n \in NodeIds :
        "realizePosition" \in realized[n] =>
            /\ pc[n].X_PB = Compose(Compose(mob[n].X_PF, pc[n].X_FM), mob[n].X_MB)
            /\ pc[n].X_GB =
                 Compose(IF mob[n].parent = 0 THEN Identity ELSE pc[mob[n].parent].X_GB,
                         pc[n].X_PB)
            /\ pc[n].X_GB = PathProduct(n)

\* A realizePosition step writes its own node's entries only, and of what it
\* writes only X_GB depends on another node: on the parent's X_GB as the
\* step found it.
C9_Step ==
    (nCalls' # nCalls /\ lastCall'.op = "realizePosition") =>
        LET n == lastCall'.node
            X_GP == IF mob[n].parent = 0 THEN Identity ELSE pc[mob[n].parent].X_GB
            X_FM == IF nodes[n].isReversed THEN Invert(calcAcrossJointTransform(n, q))
                    ELSE calcAcrossJointTransform(n, q)
        IN /\ \A m \in NodeIds \ {n} : pc'[m] = pc[m]
           /\ pc'[n].X_FM = X_FM
           /\ pc'[n].X_PB = Compose(mob[n].X_PF, Compose(X_FM, mob[n].X_MB))
           /\ pc'[n].X_GB = Compose(X_GP, pc'[n].X_PB)

\* C9: once realizePosition has run on the nodes parent before child, each
\* node's X_PB is X_PF * X_FM * X_MB and its X_GB is its parent's X_GB *
\* X_PB, the ordered product of the X_PB along the path from ground; the
\* only data of another node a realizePosition call reads is the parent's
\* ground transform.
C9_BodyTransforms == []C9_Transforms /\ [][C9_Step]_vars

\* Both nodes of a two-body chain are realized, parent first, and the order
\* of the product matters: the child's X_GB is not X_PB * (parent's X_GB).
C9_Witness ==
    \E n \in NodeIds :
        /\ mob[n].parent # 0
        /\ "realizePosition" \in realized[n]
        /\ "realizePosition" \in realized[mob[n].parent]
        /\ pc[n].X_GB = Compose(pc[mob[n].parent].X_PB, pc[n].X_PB)
        /\ pc[n].X_GB # Compose(pc[n].X_PB, pc[mob[n].parent].X_PB)
        /\ pc[n].X_PB # Compose(Compose(mob[n].X_MB, pc[n].X_FM), mob[n].X_PF)

\* ------------------------------------------------------ joint velocities
\* Entry (r, k) of H * fromU(u), summed column by column.
RECURSIVE EntrySum(_, _, _, _, _)
EntrySum(H, r, k, base, j) ==
    IF j = 0 THEN 0
    ELSE H[j][r][k] * u[base + j - 1] + EntrySum(H, r, k, base, j - 1)

\* C10: calcJointKinematicsVel leaves V_FM = H_FM * (the node's u entries)
\* and V_PB_G = H * (the same entries); a 1-dof node with H_FM = angular
\* (0,0,1) / linear (0,0,0) and u = [2] gets angular (0,0,2) and linear
\* (0,0,0).
C10_JointVelocity ==
    (lastCall.op = "realizeVelocity" /\ ~lastCall.failed) =>
        LET n == RealizedNode
            dof == nodes[n].dof
            base == nodes[n].uIndex
        IN /\ \A r \in 1..2, k \in 1..3 :
                /\ vc[n].V_FM[r][k] = EntrySum(pc[n].H_FM, r, k, base, dof)
                /\ vc[n].V_PB_G[r][k] = EntrySum(pc[n].H, r, k, base, dof)
           /\ (dof = 1 /\ pc[n].H_FM[1] = << <<0, 0, 1>>, <<0, 0, 0>> >> /\ u[base] = 2) =>
                vc[n].V_FM = << <<0, 0, 2>>, <<0, 0, 0>> >>

\* The scenario: a single 1-dof node, position realized, H_FM the z axis,
\* u = [2].
C10_Witness ==
    /\ lastCall.op = "realizeVelocity"
    /\ Len(nodes) = 1
    /\ nodes[1].dof = 1
    /\ "realizePosition" \in realized[1]
    /\ pc[1].H_FM[1] = << <<0, 0, 1>>, <<0, 0, 0>> >>
    /\ u[0] = 2
    /\ vc[1].V_FM = << <<0, 0, 2>>, <<0, 0, 0>> >>

\* ------------------------------------------------ the empty stage functions
\* C11: realizeModel, realizeInstance, realizeTime, realizeAcceleration and
\* realizeReport change nothing: whatever stages are realized and however
\* often they are called, q, u, qdot, udot and every entry of the position,
\* velocity and dynamics caches of every node stay as they were.
C11_Step ==
    lastCall'.op \in EmptyRealizeOps =>
        /\ UNCHANGED <<q, u, qdot, uDot, pc, vc, dc>>
        /\ ~aborted'
C11_EmptyStagesChangeNothing == [][C11_Step]_vars

\* realizeAcceleration has returned on a tree realized through the dynamics
\* stage, with the caches holding what the walker computed.
C11_Witness ==
    /\ lastCall.op = "realizeAcceleration"
    /\ \A m \in NodeIds : realized[m] = {"realizePosition", "realizeVelocity", "realizeDynamics"}
    /\ Len(nodes) > 1
    /\ vc[lastCall.node].V_FM # StaleSpatial
    /\ vc[lastCall.node].V_FM # ZeroSpatial
    /\ dc[lastCall.node].VD_PB_G # StaleSpatial

\* ------------------------------------------------------------- sibling order
\* The position cache with every entry that belongs neither to node n nor
\* to its parent replaced by stale contents.
OwnAndParentOnly(c, n) ==
    [m \in NodeIds |->
        IF m = n \/ m = mob[n].parent THEN c[m] ELSE StalePosition(nodes[m].dof)]

\* Whenever the walker may take either of two nodes next in a stage, taking
\* them in one order leaves the caches the other order leaves.
C12_Commute ==
    \A a, b \in NodeIds :
        a < b =>
            /\ (WalkerMay("realizePosition", a) /\ WalkerMay("realizePosition", b)) =>
                  PositionCacheOf(PositionCacheOf(pc, a, nodes[a].isReversed), b,
                                  nodes[b].isReversed)
                  = PositionCacheOf(PositionCacheOf(pc, b, nodes[b].isReversed), a,
                                    nodes[a].isReversed)
            /\ (WalkerMay("realizeVelocity", a) /\ WalkerMay("realizeVelocity", b)) =>
                  /\ calcJointKinematicsVel(b, pc, u, calcJointKinematicsVel(a, pc, u, vc))
                     = calcJointKinematicsVel(a, pc, u, calcJointKinematicsVel(b, pc, u, vc))
                  /\ calcQDot(nodes[b], u, calcQDot(nodes[a], u, qdot))
                     = calcQDot(nodes[a], u, calcQDot(nodes[b], u, qdot))
            /\ (WalkerMay("realizeDynamics", a) /\ WalkerMay("realizeDynamics", b)) =>
                  DynamicsCacheOf(pc, DynamicsCacheOf(pc, dc, a, nodes[a].isReversed), b,
                                  nodes[b].isReversed)
                  = DynamicsCacheOf(pc, DynamicsCacheOf(pc, dc, b, nodes[b].isReversed), a,
                                    nodes[a].isReversed)

\* A realize step writes the cache entries of its own node only (and of
\* qdot its own slice), and what realizePosition writes does not depend on
\* the entries of any node but itself and its parent.
C12_Step ==
    (nCalls' # nCalls) =>
        LET n == lastCall'.node IN
        /\ \A m \in NodeIds \ {n} : pc'[m] = pc[m] /\ vc'[m] = vc[m] /\ dc'[m] = dc[m]
        /\ \A i \in DOMAIN qdot : i \notin QRange(nodes[n]) => qdot'[i] = qdot[i]
        /\ lastCall'.op = "realizePosition" =>
              pc'[n] = PositionCacheOf(OwnAndParentOnly(pc, n), n, nodes[n].isReversed)[n]

\* C12: sibling order does not matter.  Two base-to-tip orders of running
\* realizePosition (realizeVelocity, realizeDynamics) over a tree leave the
\* same cache contents, as each call writes only its own node's slice and
\* reads nothing of a sibling.
C12_SiblingOrderIrrelevant == []C12_Commute /\ [][C12_Step]_vars

\* Two siblings under a common parent are realized through every stage, the
\* higher-numbered one first in the last stage, with different transforms.
C12_Witness ==
    \E a, b \in NodeIds :
        /\ a < b
        /\ mob[a].parent = mob[b].parent
        /\ mob[a].parent # 0
        /\ \A m \in NodeIds : realized[m] = {"realizePosition", "realizeVelocity", "realizeDynamics"}
        /\ lastCall.op = "realizeDynamics"
        /\ lastCall.node = a
        /\ pc[a].X_GB # pc[b].X_GB

\* ------------------------------------------------- mass-matrix consistency
\* C13: for any tree and any generalized force f, running
\* calcMInverseFPass1Inward over all nodes tip to base, then
\* calcMInverseFPass2Outward base to tip, and then calcMAPass1Outward base
\* to tip and calcMAPass2Inward tip to base on the result, returns f: when
\* the last sweep is done, allTau holds f at every node.
C13_MassMatrixConsistency ==
    (mm # <<>> /\ MassDone) =>
        \A n \in NodeIds : mm.allTau[n] = ForceOf(n)

\* A chain or branch is done with a nonzero f, and the joints are coupled:
\* some node's udot is not just its own DI epsilon.
C13_Witness ==
    /\ mm # <<>> /\ MassDone
    /\ \E n \in NodeIds :
         /\ ForceOf(n) # RatOf(0)
         /\ mob[n].parent # 0
         /\ mm.allUDot[n] # RMul(mm.DI[n], mm.allEpsilon[n])
         /\ mm.allEpsilon[mob[n].parent] # ForceOf(mob[n].parent)
         /\ mm.allTau[n] = ForceOf(n)

\* ------------------------------------------------------- the composed fits
\* C14: the default setQToFitTransformImpl calls the rotation fit with the
\* rotation part of the target and then the translation fit with its
\* translation part, on the same q; the default setUToFitVelocityImpl
\* calls the angular-velocity fit with the angular part of the target and
\* then the linear-velocity fit with its linear part, on the same u; each
\* sub-fit is called exactly once. The second sub-fit sees what the first
\* wrote, and nothing but the node's own coordinates (speeds) changes.
FitNode == nodes[lastCall'.node]
FitTarget == lastCall'.result

C14_Transform ==
    lastCall'.op = "setQToFitTransformImpl" =>
        /\ trace' = << [fn |-> "setQToFitRotationImpl", arg |-> FitTarget.R],
                       [fn |-> "setQToFitTranslationImpl", arg |-> FitTarget.p] >>
        /\ q'[FitNode.qIndex] = RotCode(FitTarget.R)
        /\ FitNode.dof >= 2 =>
             q'[FitNode.qIndex + 1] = FitTarget.p[1] + RotCode(FitTarget.R)
        /\ \A i \in DOMAIN q :
             (i < FitNode.qIndex \/ i > FitNode.qIndex + 1) => q'[i] = q[i]
        /\ u' = u

C14_Velocity ==
    lastCall'.op = "setUToFitVelocityImpl" =>
        /\ trace' = << [fn |-> "setUToFitAngularVelocityImpl", arg |-> FitTarget[1]],
                       [fn |-> "setUToFitLinearVelocityImpl", arg |-> FitTarget[2]] >>
        /\ u'[FitNode.uIndex] = FitTarget[1][3] + (q[FitNode.qIndex] % 2)
        /\ FitNode.dof >= 2 =>
             u'[FitNode.uIndex + 1] = FitTarget[2][1] - u'[FitNode.uIndex]
        /\ \A i \in DOMAIN u :
             (i < FitNode.uIndex \/ i > FitNode.uIndex + 1) => u'[i] = u[i]
        /\ q' = q

C14_ComposedFits == [][C14_Transform /\ C14_Velocity]_vars

\* A velocity fit has just run on a node with a rotational and a
\* translational mobility whose q a transform fit had set before: the
\* translational coordinate holds the target's p offset by the rotational
\* one, and the linear speed the target's v less the angular speed.
C14_Witness ==
    /\ lastCall.op = "setUToFitVelocityImpl"
    /\ Len(trace) = 2
    /\ LET n == lastCall.node IN
         /\ nodes[n].dof = 2
         /\ \E X_FM \in FitTransforms :
              /\ q[nodes[n].qIndex] = RotCode(X_FM.R)
              /\ q[nodes[n].qIndex + 1] = X_FM.p[1] + RotCode(X_FM.R)
         /\ u[nodes[n].uIndex] # 0
         /\ u[nodes[n].uIndex + 1] = lastCall.result[2][1] - u[nodes[n].uIndex]

\* ------------------------------------------- the steps of realizePosition
\* Entries left in a node's position cache by some other computation.
OtherPosition(dof) ==
    [X_FM |-> Flip, X_PB |-> Rot120, X_GB |-> Flip,
     H_FM |-> [j \in 1..dof |-> <<<<1, 2, 3>>, <<4, 5, 6>>>>],
     H    |-> [j \in 1..dof |-> <<<<6, 5, 4>>, <<3, 2, 1>>>>]]

\* C15: within one realizePosition call the steps run in the order
\* (1) sines, cosines and normalized q, (2) X_FM, (3) X_PB and X_GB, (4) H_FM,
\* (5) H, (6) joint-independent position kinematics, each reading only
\* results of earlier steps of this call or of the parent: the body
\* transforms and the reversed H_FM are computed from the X_FM this call
\* wrote, H from the H_FM this call wrote and the parent's X_GB, and
\* nothing depends on what the node's entries held before the call.
C15_Step ==
    (nCalls' # nCalls /\ lastCall'.op = "realizePosition" /\ ~lastCall'.failed) =>
        LET n == lastCall'.node
            X_GF == Compose(IF mob[n].parent = 0 THEN Identity
                            ELSE pc[mob[n].parent].X_GB, mob[n].X_PF)
        IN /\ Len(trace') = 6
           /\ trace'[1] = "calcJointSinCosQNorm"
           /\ trace'[2] = "calcAcrossJointTransform"
           /\ trace'[3] = "calcBodyTransforms"
           /\ trace'[4] = IF nodes[n].isReversed THEN "calcReverseMobilizerH_FM"
                          ELSE "calcAcrossJointVelocityJacobian"
           /\ trace'[5] = "calcParentToChildVelocityJacobianInGround"
           /\ trace'[6] = "calcJointIndependentKinematicsPos"
           /\ pc'[n].X_PB = Compose(Compose(mob[n].X_PF, pc'[n].X_FM), mob[n].X_MB)
           /\ nodes[n].isReversed =>
                \A j \in 1..nodes[n].dof :
                    pc'[n].H_FM[j] =
                        SpatialScale(SpatialRotate(pc'[n].X_FM, mob[n].H_F0M0[j]), -1)
           /\ \A j \in 1..nodes[n].dof :
                  pc'[n].H[j] = SpatialRotate(X_GF, pc'[n].H_FM[j])
           /\ pc'[n] = PositionCacheOf([pc EXCEPT ![n] = OtherPosition(nodes[n].dof)],
                                       n, nodes[n].isReversed)[n]

C15_PositionStepOrder == [][C15_Step]_vars

\* realizePosition has just run on a reversed child of a realized parent;
\* its H_FM is not the as-defined Jacobian, its H is not its H_FM, and
\* none of its entries is what the cache held before.
C15_Witness ==
    LET n == lastCall.node IN
    /\ lastCall.op = "realizePosition" /\ ~lastCall.failed
    /\ Len(trace) = 6
    /\ nodes[n].isReversed
    /\ mob[n].parent # 0
    /\ "realizePosition" \in realized[mob[n].parent]
    /\ pc[n].H_FM # mob[n].H_F0M0
    /\ pc[n].H # pc[n].H_FM
    /\ pc[n].X_FM # StalePosition(nodes[n].dof).X_FM
    /\ pc[n].H # [j \in 1..nodes[n].dof |->
                    SpatialRotate(Compose(pc[mob[n].parent].X_GB, mob[n].X_PF),
                                  StaleSpatial)]

\* ------------------------------------------- the steps of realizeDynamics
\* C16: within one realizeDynamics call HDot_FM is written first, then the
\* ground-frame HDot, then VD_PB_G, which is exactly HDot times the node's
\* u entries, and only then the joint-independent dynamics step runs;
\* the call writes the node's dynamics cache and leaves the position
\* cache, the velocity cache, q and u unchanged.
C16_Step ==
    (nCalls' # nCalls /\ lastCall'.op = "realizeDynamics" /\ ~lastCall'.failed) =>
        LET n == lastCall'.node
            X_GF == Compose(IF mob[n].parent = 0 THEN Identity
                            ELSE pc[mob[n].parent].X_GB, mob[n].X_PF)
        IN /\ Len(trace') = 4
           /\ trace'[1] = IF nodes[n].isReversed THEN "calcReverseMobilizerHDot_FM"
                          ELSE "calcAcrossJointVelocityJacobianDot"
           /\ trace'[2] = "calcParentToChildVelocityJacobianInGroundDot"
           /\ trace'[3] = "calcJointDynamics"
           /\ trace'[4] = "calcJointIndependentDynamicsVel"
           /\ \A j \in 1..nodes[n].dof :
                  dc'[n].HDot[j] = SpatialRotate(X_GF, dc'[n].HDot_FM[j])
           /\ \A r \in 1..2, k \in 1..3 :
                  dc'[n].VD_PB_G[r][k] =
                      EntrySum(dc'[n].HDot, r, k, nodes[n].uIndex, nodes[n].dof)
           /\ \A m \in NodeIds \ {n} : dc'[m] = dc[m]
           /\ pc' = pc /\ vc' = vc /\ q' = q /\ u' = u

C16_DynamicsStepOrder == [][C16_Step]_vars

\* realizeDynamics has just run on a node with nonzero speeds whose
\* position and velocity are realized: its bias term is not zero, not what
\* the cache held before, and not HDot_FM times u.
C16_Witness ==
    LET n == lastCall.node IN
    /\ lastCall.op = "realizeDynamics" /\ ~lastCall.failed
    /\ Len(trace) = 4
    /\ {"realizePosition", "realizeVelocity"} \subseteq realized[n]
    /\ u[nodes[n].uIndex] # 0
    /\ dc[n].VD_PB_G # ZeroSpatial
    /\ dc[n].VD_PB_G # StaleSpatial
    /\ dc[n].HDot # dc[n].HDot_FM
    /\ \E r \in 1..2, k \in 1..3 :
         dc[n].VD_PB_G[r][k] #
             EntrySum(dc[n].HDot_FM, r, k, nodes[n].uIndex, nodes[n].dof)

\* ------------------------------------------------------------ copyQ and copyU
\* What copying the entries start .. start + len - 1 of in into out leaves.
CopiedSlice(out, in, start, len) ==
    [i \in DOMAIN out |-> IF start <= i /\ i < start + len THEN in[i] ELSE out[i]]

C17_Step ==
    LET node == nodes[lastCall'.node] IN
    /\ lastCall'.op = "copyU" =>
         /\ uDot' = CopiedSlice(uDot, u, node.uIndex, node.dof)
         /\ u' = u /\ qdot' = qdot /\ q' = q
         /\ ~aborted'
    /\ lastCall'.op = "copyQ" =>
         /\ qdot' = IF node.quaternionUse = QuaternionIsNeverUsed
                    THEN CopiedSlice(qdot, q, node.qIndex, node.dof)
                    ELSE qdot
         /\ aborted' = (node.quaternionUse # QuaternionIsNeverUsed)
         /\ lastCall'.failed = aborted'
         /\ q' = q /\ uDot' = uDot /\ u' = u

C17_AllCopied ==
    (\A n \in NodeIds : nodes[n].quaternionUse = QuaternionIsNeverUsed) =>
        /\ (\A n \in NodeIds : "copyU" \in realized[n]) => uDot = u
        /\ (\A n \in NodeIds : "copyQ" \in realized[n]) => qdot = q

\* C17: copyU copies exactly the node's dof entries at uIndex from the input
\* array to the same positions of the output array; the default copyQ does
\* the same for the dof entries at qIndex when quaternionUse is
\* QuaternionIsNeverUsed and fails its assertion otherwise; every output
\* entry outside the node's range and the whole input array are unchanged,
\* so that once copyU (copyQ) has run for all nodes of a tree without
\* quaternions the output array equals the input array.
C17_CopyQAndCopyU == []C17_AllCopied /\ [][C17_Step]_vars

\* Both copies have run for every node of a tree of several nodes without
\* quaternions, and both outputs equal their inputs.
C17_Witness ==
    /\ Len(nodes) >= 2
    /\ lastCall.op = "copyQ"
    /\ \A n \in NodeIds :
         /\ nodes[n].quaternionUse = QuaternionIsNeverUsed
         /\ realized[n] = {"copyQ", "copyU"}
    /\ uDot = u /\ qdot = q
    /\ \A i \in DOMAIN u : u[i] > 0

\* ------------------------------------------- the constructor and the counters
\* Where the counters stand after node k: at the indices of node k + 1, or,
\* for the last node, at the counters themselves.
UAfter(k) == IF k < Len(nodes) THEN nodes[k + 1].uIndex ELSE nextUSlot
USqAfter(k) == IF k < Len(nodes) THEN nodes[k + 1].uSqIndex ELSE nextUSqSlot
QAfter(k) == IF k < Len(nodes) THEN nodes[k + 1].qIndex ELSE nextQSlot

\* Constructing a node reads the counters and leaves them alone.
C18_Construct ==
    Len(nodes') > Len(nodes) =>
        /\ nextUSlot' = nextUSlot /\ nextUSqSlot' = nextUSqSlot /\ nextQSlot' = nextQSlot
        /\ nodes'[Len(nodes')].uIndex = nextUSlot
        /\ nodes'[Len(nodes')].uSqIndex = nextUSqSlot
        /\ nodes'[Len(nodes')].qIndex = nextQSlot

\* The counters move by one slice of node k per updateSlots call for it:
\* not at all without a call, so that the next node aliases node k; twice
\* with two calls, which leaves a gap of one slice that no node
\* constructed by the discipline before or after covers.
C18_Counters ==
    \A k \in NodeIds :
        LET dof == nodes[k].dof
            maxNQ == IF nodes[k].maxNQOverride # 0 THEN nodes[k].maxNQOverride ELSE dof
        IN /\ UAfter(k) = nodes[k].uIndex + slotCalls[k] * dof
           /\ USqAfter(k) = nodes[k].uSqIndex + slotCalls[k] * dof * dof
           /\ ~aborted => QAfter(k) = nodes[k].qIndex + slotCalls[k] * maxNQ
           /\ (slotCalls[k] = 0 /\ k < Len(nodes)) =>
                /\ nodes[k + 1].uIndex = nodes[k].uIndex
                /\ nodes[k + 1].uSqIndex = nodes[k].uSqIndex
                /\ nodes[k + 1].qIndex = nodes[k].qIndex
                /\ fromU(nodes[k]) \cap fromU(nodes[k + 1]) # {}
                /\ fromUSq(nodes[k]) \cap fromUSq(nodes[k + 1]) # {}
                /\ fromQ(nodes[k]) \cap fromQ(nodes[k + 1]) # {}
           /\ slotCalls[k] = 2 =>
                /\ UAfter(k) - (nodes[k].uIndex + dof) = dof
                /\ USqAfter(k) - (nodes[k].uSqIndex + dof * dof) = dof * dof
                /\ ~aborted => QAfter(k) - (nodes[k].qIndex + maxNQ) = maxNQ
                /\ (\A m \in 1..(k - 1) : slotCalls[m] >= 1) =>
                     \A m \in NodeIds :
                        /\ fromU(nodes[m]) \cap VecAt(nodes[k].uIndex + dof, dof) = {}
                        /\ fromUSq(nodes[m])
                             \cap VecAt(nodes[k].uSqIndex + dof * dof, dof * dof) = {}
                        /\ fromQ(nodes[m]) \cap VecAt(nodes[k].qIndex + maxNQ, maxNQ) = {}

\* C18: constructing a node does not advance the three next-slot counters,
\* only updateSlots does; two nodes constructed with no updateSlots call
\* between them get identical uIndex, uSqIndex and qIndex and alias the
\* same slices, and calling updateSlots twice for one node leaves an unused
\* gap of dof, dof * dof and maxNQ entries.
C18_ConstructorLeavesCounters == []C18_Counters /\ [][C18_Construct]_vars

\* Two nodes were constructed with no updateSlots call between them and
\* share their indices, and updateSlots has then run twice for the second:
\* the counters stand two slices past its indices.
C18_Witness ==
    /\ Len(nodes) = 2 /\ ~aborted
    /\ slotCalls = <<0, 2>>
    /\ nodes[1].uIndex = nodes[2].uIndex
    /\ nodes[1].uSqIndex = nodes[2].uSqIndex
    /\ nodes[1].qIndex = nodes[2].qIndex
    /\ nodes[2].maxNQOverride > nodes[2].dof
    /\ nextUSlot = nodes[2].uIndex + 2 * nodes[2].dof
    /\ nextQSlot = nodes[2].qIndex + 2 * nodes[2].maxNQOverride

\* ------------------------------------------- the q slice against the u slice
\* The q's a node takes beyond its u's: what its getMaxNQ returns less dof.
ExtraQ(node) == (IF node.maxNQOverride # 0 THEN node.maxNQOverride ELSE node.dof) - node.dof

RECURSIVE ExtraQBefore(_)
ExtraQBefore(n) == IF n <= 1 THEN 0 ELSE ExtraQBefore(n - 1) + ExtraQ(nodes[n - 1])

AllDefaultMaxNQ == \A n \in NodeIds : nodes[n].maxNQOverride = 0

C19_Offsets ==
    /\ \A n \in NodeIds : nodes[n].qIndex - nodes[n].uIndex = ExtraQBefore(n)
    /\ AllDefaultMaxNQ =>
         /\ \A n \in NodeIds : nodes[n].qIndex = nodes[n].uIndex
         /\ DOMAIN qdot = DOMAIN u
         /\ (\A n \in NodeIds : \A i \in fromQ(nodes[n]) : qdot[i] >= 0) => qdot = u

C19_Step ==
    (lastCall = NoCall /\ lastCall'.op = "calcQDot" /\ ~lastCall'.failed) =>
        LET n == lastCall'.node IN
        /\ \A j \in 0..(nodes[n].dof - 1) :
               qdot'[nodes[n].qIndex + j] = u[nodes[n].uIndex + j]
        /\ (\E m \in 1..(n - 1) : ExtraQ(nodes[m]) > 0) =>
               /\ nodes[n].qIndex # nodes[n].uIndex
               /\ fromQ(nodes[n]) # fromU(nodes[n])
               /\ \A i \in DOMAIN qdot :
                      i < nodes[n].qIndex => qdot'[i] = qdot[i]

\* C19: in a tree built by construct-then-updateSlots each node's
\* qIndex - uIndex is the sum of getMaxNQ - dof over the nodes built before
\* it; when every node keeps the default getMaxNQ every node has
\* qIndex = uIndex and running the default calcQDot on all nodes makes the
\* whole qdot array equal to the whole u array; when an earlier node has
\* maxNQ > dof, the default calcQDot of a later node reads u at uIndex and
\* writes qdot at the different position qIndex.
C19_QSliceOffset == []C19_Offsets /\ [][C19_Step]_vars

\* calcQDot has run on the second node of a tree whose first node takes
\* more q's than u's: the entries written sit at qIndex, past the
\* positions the speeds were read from, which still hold what was handed
\* over.
C19_Witness ==
    /\ Len(nodes) >= 2
    /\ lastCall.op = "calcQDot" /\ lastCall.node = 2 /\ ~lastCall.failed
    /\ ExtraQ(nodes[1]) > 0
    /\ nodes[2].qIndex - nodes[2].uIndex = ExtraQ(nodes[1])
    /\ u[nodes[2].uIndex] > 0
    /\ qdot[nodes[2].qIndex] = u[nodes[2].uIndex]
    /\ qdot[nodes[2].uIndex] < 0

====
